---- MODULE Spec2Model ----
(***************************************************************************)
(* Model of the control-noise simulator: the engine                        *)
(* (src/physics/engine.ts), the App component that drives it              *)
(* (src/index.tsx) and the spectrum analyzer that reads its buffer.       *)
(*                                                                         *)
(* Numbers.  The engine computes in IEEE doubles; the model computes in    *)
(* fixed point, rounding to nearest after every multiplication or          *)
(* division the way Math.round does (half up):                             *)
(*   volts, envelope values, sines and cosines   1/SCALE                   *)
(*   biquad coefficients                         1/COEF_SCALE              *)
(*   angles                                      1/ANGLE_DIV of a turn     *)
(*   noise variance                              1/VAR_SCALE  (1e-9)       *)
(*   decay rates                                 1/RATE_SCALE per us       *)
(*   T2 times                                    1/T2_SCALE us             *)
(* Linear gains 10^(dB/20) are exact rationals [n, d]; the dB values the   *)
(* model feeds the engine are multiples of 20, for which 10^(dB/20) is a   *)
(* power of ten.                                                           *)
(*                                                                         *)
(* Configuration fields keep the names of src/types.ts and hold integers:  *)
(*   targetFreq, loFreq        tenths of a GHz                             *)
(*   ncoFreq                   hundredths of a GHz                         *)
(*   amp, loLeakage            1/SCALE volt                                *)
(*   iqAmpImbalance            1/SCALE                                     *)
(*   phase, iqPhaseImbalance   tenths of a radian                          *)
(*   phaseNoise                thousandths                                 *)
(*   pulseWidth, riseTime, sigma   as in the source (percent of a buffer)  *)
(*   cable_room.temp           kelvin;  cable_cryo.temp  hundredths of K   *)
(*   noiseIntensity, flickerNoise  tenths                                  *)
(*   coupling                  hundredths                                  *)
(*   t1_us                     tenths of a microsecond                     *)
(*   component value           dB (attenuator, amplifier), tenths of a GHz *)
(*                             (filters)                                   *)
(* Uniform draws of Math.random() are thousandths in 0..999; a Gaussian    *)
(* draw of boxMullerTransform() is in 1/SCALE.                             *)
(***************************************************************************)
EXTENDS Integers, Sequences, FiniteSets, TLC

\* ------------------------------------------------------------------ scales
SCALE == 1000
COEF_SCALE == 100000
ANGLE_DIV == 4000
VAR_SCALE == 1000000000
RATE_SCALE == 6000000
T2_SCALE == 1000

\* ------------------------------------------------------- program constants
SAMPLE_RATE == 4000
BUFFER_SIZE == 1024
IMPEDANCE == 50
DEPHASING_SCALE == 1500

\* ------------------------------------------------------------------ bounds
\* samples of each frame the model computes (the first NumSamples of the loop)
NumSamples == 2
\* simulateFrame calls in one behaviour
MaxCalls == 2
\* simulateFrame calls in one behaviour of the T2 study
MaxT2Calls == 3
\* simulateFrame calls in one behaviour of the noiseless run
MaxIdealCalls == 200
\* the distance from its limit, in 1/T2_SCALE us, at which the fixed-point
\* moving average stops moving (0.05 of it rounds to nothing)
T2Tolerance == 10
\* the longest chain handed to processChain and getChainGain on their own
MaxChainLen == 3
\* the largest step by which the monotonicity check raises a noise setting
MaxRaise == 20

\* -------------------------------------------------------------------- state
VARIABLES
  filterStates,   \* Map<string, BiquadState>: component id -> filter memory
  pinkNoise,      \* the taps of the one PinkNoiseGenerator
  smoothedT2,     \* the moving average of the T2 estimate
  idealBuffer,    \* the pooled reference buffer (its first NumSamples samples)
  noisyBuffer,    \* the pooled signal buffer (its first NumSamples samples)
  result,         \* the scalars of the last SimulationResult, <<>> before any
  call,           \* history: the arguments, draws and memory of the last call
  snap,           \* history: the first call and what it returned
  prev,           \* history: the call before the last one, <<>> before two
  calls,          \* history: the number of calls made
  probe,          \* the last processChain call or loop pass made on its own
  app             \* the App component's state and refs, <<>> without the component

vars == <<filterStates, pinkNoise, smoothedT2, idealBuffer, noisyBuffer,
          result, call, snap, prev, calls, probe, app>>

engine == <<filterStates, pinkNoise, smoothedT2, idealBuffer, noisyBuffer,
            result, call, snap, prev, calls>>

\* ------------------------------------------------------------- arithmetic
Abs(x) == IF x < 0 THEN -x ELSE x

Min(a, b) == IF a <= b THEN a ELSE b

Max(a, b) == IF a >= b THEN a ELSE b

\* Math.round(a / b) for b > 0: the nearest integer, halves rounded up
RoundDiv(a, b) == (2 * a + b) \div (2 * b)

\* The value that stands for the double NaN.  Every operation below that has
\* NaN among its operands gives NaN, as the doubles' arithmetic does.
NaN == -1000000000

\* a + b and a - b of two doubles
Plus(a, b) == IF a = NaN \/ b = NaN THEN NaN ELSE a + b

Minus(a, b) == IF a = NaN \/ b = NaN THEN NaN ELSE a - b

\* a * b of two 1/SCALE numbers, in 1/SCALE
Mul(a, b) == IF a = NaN \/ b = NaN THEN NaN ELSE RoundDiv(a * b, SCALE)

RECURSIVE IntPow(_, _)
IntPow(base, e) == IF e <= 0 THEN 1 ELSE base * IntPow(base, e - 1)

\* the first quarter of cos, in steps of 1/400 turn, in 1/SCALE
CosTab ==
  << 1000, 1000, 1000, 999, 998, 997, 996, 994, 992, 990, 988, 985, 982, 979,
     976, 972, 969, 965, 960, 956, 951, 946, 941, 935, 930, 924, 918, 911, 905,
     898, 891, 884, 876, 869, 861, 853, 844, 836, 827, 818, 809, 800, 790, 780,
     771, 760, 750, 740, 729, 718, 707, 696, 685, 673, 661, 649, 637, 625, 613,
     600, 588, 575, 562, 549, 536, 522, 509, 495, 482, 468, 454, 440, 426, 412,
     397, 383, 368, 353, 339, 324, 309, 294, 279, 264, 249, 233, 218, 203, 187,
     172, 156, 141, 125, 110, 94, 78, 63, 47, 31, 16, 0 >>

\* Math.cos of an angle given in 1/ANGLE_DIV turns
Cos(angle) ==
  LET a == angle % ANGLE_DIV
      q == RoundDiv(a, 10) % 400
  IN  IF q <= 100 THEN CosTab[q + 1]
      ELSE IF q <= 200 THEN -CosTab[200 - q + 1]
      ELSE IF q <= 300 THEN -CosTab[q - 200 + 1]
      ELSE CosTab[400 - q + 1]

\* Math.sin of an angle given in 1/ANGLE_DIV turns
Sin(angle) == Cos(angle - 1000)

\* 2*PI*f*t for f in Hz and t = n / SAMPLE_RATE, in 1/ANGLE_DIV turns
TurnsOf(f, n) == (f * n) % ANGLE_DIV

\* an angle of r tenths of a radian, in 1/ANGLE_DIV turns
RadToTurns(r) == RoundDiv(r * 40000, 628)

\* ------------------------------------------------------------------ gains
\* Math.pow(10, dB / 20) as the rational n/d, for dB a multiple of 20
Pow10dB(dB) ==
  IF dB >= 0 THEN [n |-> IntPow(10, dB \div 20), d |-> 1]
  ELSE [n |-> 1, d |-> IntPow(10, (-dB) \div 20)]

RECURSIVE Gcd(_, _)
Gcd(a, b) == IF b = 0 THEN a ELSE Gcd(b, a % b)

\* a rational in lowest terms
Norm(r) ==
  IF r.n = 0 THEN [n |-> 0, d |-> 1]
  ELSE LET g == Gcd(Abs(r.n), r.d) IN [n |-> r.n \div g, d |-> r.d \div g]

RatMul(a, b) == Norm([n |-> a.n * b.n, d |-> a.d * b.d])

\* s * g for a 1/SCALE number s and a rational g
ApplyGain(s, g) == IF s = NaN THEN NaN ELSE RoundDiv(s * g.n, g.d)

\* -------------------------------------------------------------- components
\* a variant that takes every kind of component for a filter
FilterTypesAndMore == {"lowpass", "highpass", "notch", "mystery"}

FilterTypes == {"lowpass", "highpass", "notch"}

\* class BiquadState: a fresh filter memory
BiquadState == [x1 |-> 0, x2 |-> 0, y1 |-> 0, y2 |-> 0]

\* getBiquadState(id): the map after the lookup (an entry is made when missing)
getBiquadState(fs, id) ==
  IF id \in DOMAIN fs THEN fs
  ELSE [i \in DOMAIN fs \cup {id} |-> IF i = id THEN BiquadState ELSE fs[i]]

\* calculateCoeffs(type, freqGHz), Q = 0.707; freq in tenths of a GHz
calculateCoeffs(type, freq) ==
  LET f_viz == Max(1, 20 + (freq - 40) * 2)
      omega == TurnsOf(f_viz, 1)
      \* sin(omega) / (2 * Q), 2 * Q = 1.414
      alpha == RoundDiv(Sin(omega) * 1000, 1414)
      cosw  == Cos(omega)
      b0 == IF type = "lowpass" THEN (SCALE - cosw) \div 2
            ELSE IF type = "highpass" THEN (SCALE + cosw) \div 2
            ELSE IF type = "notch" THEN SCALE ELSE 0
      b1 == IF type = "lowpass" THEN SCALE - cosw
            ELSE IF type = "highpass" THEN -(SCALE + cosw)
            ELSE IF type = "notch" THEN -2 * cosw ELSE 0
      b2 == IF type = "lowpass" THEN (SCALE - cosw) \div 2
            ELSE IF type = "highpass" THEN (SCALE + cosw) \div 2
            ELSE IF type = "notch" THEN SCALE ELSE 0
      a0 == IF type \in FilterTypes THEN SCALE + alpha ELSE SCALE
      a1 == IF type \in FilterTypes THEN -2 * cosw ELSE 0
      a2 == IF type \in FilterTypes THEN SCALE - alpha ELSE 0
  IN  [b0 |-> RoundDiv(b0 * COEF_SCALE, a0),
       b1 |-> RoundDiv(b1 * COEF_SCALE, a0),
       b2 |-> RoundDiv(b2 * COEF_SCALE, a0),
       a1 |-> RoundDiv(a1 * COEF_SCALE, a0),
       a2 |-> RoundDiv(a2 * COEF_SCALE, a0)]

\* prepareCoeffs over both chains: the coefficient map of one frame
RECURSIVE prepareCoeffs(_, _, _)
prepareCoeffs(comps, k, coeffsMap) ==
  IF k > Len(comps) THEN coeffsMap
  ELSE LET c == comps[k] IN
    IF c.type \in FilterTypes
    THEN prepareCoeffs(comps, k + 1,
           [i \in DOMAIN coeffsMap \cup {c.id} |->
              IF i = c.id THEN calculateCoeffs(c.type, c.value) ELSE coeffsMap[i]])
    ELSE prepareCoeffs(comps, k + 1, coeffsMap)

\* the amplifier's added noise (Math.random() - 0.5) * 0.01 * (value / 10)
AmpNoise(u, value) == RoundDiv((u - 500) * value, 10000)

\* a variant that takes a history value that is not a number for zero
BiquadOutFlushed(c, st, x) ==
  IF x = NaN THEN NaN
  ELSE RoundDiv(c.b0 * x
                + c.b1 * (IF st.x1 = NaN THEN 0 ELSE st.x1)
                + c.b2 * (IF st.x2 = NaN THEN 0 ELSE st.x2)
                - c.a1 * (IF st.y1 = NaN THEN 0 ELSE st.y1)
                - c.a2 * (IF st.y2 = NaN THEN 0 ELSE st.y2),
                COEF_SCALE)

\* one biquad step: y = b0*x + b1*x1 + b2*x2 - a1*y1 - a2*y2
BiquadOut(c, st, x) ==
  IF NaN \in {x, st.x1, st.x2, st.y1, st.y2} THEN NaN
  ELSE RoundDiv(c.b0 * x + c.b1 * st.x1 + c.b2 * st.x2 - c.a1 * st.y1 - c.a2 * st.y2,
                COEF_SCALE)

\* a variant that keeps the older output where it was
BiquadShiftInputsOnly(st, x, y) == [x1 |-> x, x2 |-> st.x1, y1 |-> y, y2 |-> st.y2]

\* the history after a step with input x and output y
BiquadShift(st, x, y) == [x1 |-> x, x2 |-> st.x1, y1 |-> y, y2 |-> st.y1]

\* a variant with the sign of the exponent lost
AttenuatorGainUp(value) == Pow10dB(value)

\* the attenuator's factor Math.pow(10, -value / 20)
AttenuatorGain(value) == Pow10dB(-value)

\* the amplifier's factor Math.pow(10, value / 20)
AmplifierGain(value) == Pow10dB(value)

\* processChain(signal, components, coeffsMap) from component k on; fs is
\* filterStates, u the uniform draw of the amplifiers.  Gives the sample and
\* the filter memory after the call.
RECURSIVE processChainFrom(_, _, _, _, _, _)
processChainFrom(k, s, components, coeffsMap, fs, u) ==
  IF k > Len(components) THEN [s |-> s, fs |-> fs]
  ELSE LET comp == components[k] IN
    IF comp.type = "attenuator"
    THEN processChainFrom(k + 1, ApplyGain(s, AttenuatorGain(comp.value)),
                          components, coeffsMap, fs, u)
    ELSE IF comp.type = "amplifier"
    THEN processChainFrom(k + 1,
           Plus(ApplyGain(s, AmplifierGain(comp.value)), AmpNoise(u, comp.value)),
           components, coeffsMap, fs, u)
    ELSE LET fs1 == getBiquadState(fs, comp.id)
             state == fs1[comp.id]
         IN IF comp.id \in DOMAIN coeffsMap
            THEN LET y == BiquadOut(coeffsMap[comp.id], state, s)
                 IN processChainFrom(k + 1, y, components, coeffsMap,
                      [fs1 EXCEPT ![comp.id] = BiquadShift(state, s, y)], u)
            ELSE processChainFrom(k + 1, s, components, coeffsMap, fs1, u)

processChain(s, components, coeffsMap, fs, u) ==
  processChainFrom(1, s, components, coeffsMap, fs, u)

\* a variant that books 20 dB of loss for every filter
GainTermdBWithFilters(comp) ==
  IF comp.type = "attenuator" THEN -comp.value
  ELSE IF comp.type = "amplifier" THEN comp.value
  ELSE -20

\* a variant that books 20 dB of loss for a low-pass filter
GainTermdBWithLowpass(comp) ==
  IF comp.type = "attenuator" THEN -comp.value
  ELSE IF comp.type = "amplifier" THEN comp.value
  ELSE IF comp.type = "lowpass" THEN -20
  ELSE 0

\* the dB a component adds to the static chain gain
GainTermdB(comp) ==
  IF comp.type = "attenuator" THEN -comp.value
  ELSE IF comp.type = "amplifier" THEN comp.value
  ELSE 0

RECURSIVE ChainGaindB(_, _)
ChainGaindB(components, k) ==
  IF k > Len(components) THEN 0
  ELSE GainTermdB(components[k]) + ChainGaindB(components, k + 1)

\* getChainGain(components): Math.pow(10, gaindB / 20)
getChainGain(components) == Pow10dB(ChainGaindB(components, 1))

\* ------------------------------------------------------------------ stages
order == <<"source", "awg", "dac", "mixer", "cable_room", "cable_cryo", "qubit">>

\* a variant that counts the stages from one: every cursor then reaches one
\* stage further down the pipeline
stageIndexFromOne(id) ==
  IF \E k \in 1..Len(order) : order[k] = id
  THEN CHOOSE k \in 1..Len(order) : order[k] = id
  ELSE -1

\* stageIndex(id): order.indexOf(id), -1 for an id that is not a stage
stageIndex(id) ==
  IF \E k \in 1..Len(order) : order[k] = id
  THEN (CHOOSE k \in 1..Len(order) : order[k] = id) - 1
  ELSE -1

\* ------------------------------------------------------------ noise sources
\* PinkNoiseGenerator: seven first-order accumulators, each updated from one
\* uniform draw; the taps' decay and input weights, in thousandths
PinkDecay == <<999, 993, 969, 867, 550, -762, 0>>

PinkWeight == <<56, 75, 154, 310, 533, -17, 116>>

\* new PinkNoiseGenerator()
PinkInit == [k \in 1..7 |-> 0]

\* the taps after next() with uniform draw u (white = 2u - 1)
PinkStep(taps, u) ==
  LET white == 2 * u - 1000
  IN  [k \in 1..7 |-> RoundDiv(PinkDecay[k] * taps[k] + PinkWeight[k] * white, 1000)]

\* the value next() returns: the sum of the taps, scaled by 0.11
PinkOut(taps) ==
  RoundDiv(11 * (taps[1] + taps[2] + taps[3] + taps[4] + taps[5] + taps[6] + taps[7]), 100)

\* Math.sqrt of a natural number, rounded down
RECURSIVE SqrtFrom(_, _, _)
SqrtFrom(x, lo, hi) ==
  IF lo >= hi THEN lo
  ELSE LET mid == (lo + hi + 1) \div 2
       IN IF mid * mid <= x THEN SqrtFrom(x, mid, hi) ELSE SqrtFrom(x, lo, mid - 1)

ISqrt(x) == SqrtFrom(x, 0, 46340)

\* Math.sqrt(temp) * 0.002 * z for temp in 1/per kelvin and a Gaussian draw z
ThermalNoise(temp, per, z) ==
  RoundDiv(ISqrt((temp * 4000000) \div per) * z, 1000000)

\* -------------------------------------------------------------- T2 estimate
\* 0.5 * amp^2 * (1/12) * (phaseNoise * 5)^2
JitterVarTerm(awg) ==
  LET ap == (awg.amp \div 100) * awg.phaseNoise
  IN  RoundDiv(ap * ap * 250, 24)

\* step^2 / 12 with step = 1 / 2^resolution
QuantVar(resolution) ==
  IF resolution >= 0
  THEN RoundDiv(RoundDiv(VAR_SCALE \div 12, IntPow(2, resolution)), IntPow(2, resolution))
  ELSE (VAR_SCALE \div 12) * IntPow(4, -resolution)

\* v * g * g for a variance v and a rational gain g
ScaleVar(v, g) == RoundDiv(RoundDiv(v * g.n, g.d) * g.n, g.d)

\* the room stage's injected variance
RoomNoiseVar(room) ==
  LET thermal == room.temp * 4000
      base == IF room.noiseType = "interference" THEN thermal + 100000 ELSE thermal
  IN  RoundDiv(RoundDiv(base * room.noiseIntensity, 10) * room.noiseIntensity, 10)

\* a variant in which the thermal variance is taken off the flicker's
CryoNoiseVarLessThermal(cryo) ==
  Max(0, cryo.flickerNoise * cryo.flickerNoise * 1000 - cryo.temp * 40)

\* the cryo stage's injected variance: thermal plus flicker
CryoNoiseVar(cryo) == cryo.temp * 40 + cryo.flickerNoise * cryo.flickerNoise * 1000

\* a variant in which the room stage adds its variance before it scales
accumulatedNoiseVarAddFirst(params, activeStage) ==
  LET idx == stageIndex(activeStage)
      roomGain == getChainGain(params.cable_room.components)
      cryoGain == getChainGain(params.cable_cryo.components)
      vA == IF idx >= 1 THEN JitterVarTerm(params.awg) ELSE 0
      vB == IF idx >= 2 THEN vA + QuantVar(params.dac.resolution) ELSE vA
      vC == IF idx >= 4 THEN ScaleVar(vB + RoomNoiseVar(params.cable_room), roomGain)
            ELSE vB
      vD == IF idx >= 5 THEN ScaleVar(vC, cryoGain) + CryoNoiseVar(params.cable_cryo)
            ELSE vC
      vE == IF idx >= 6
            THEN ScaleVar(vD, [n |-> params.qubit.coupling, d |-> 100])
            ELSE vD
  IN  vE

\* section 3 of simulateFrame: accumulatedNoiseVar
accumulatedNoiseVar(params, activeStage) ==
  LET idx == stageIndex(activeStage)
      roomGain == getChainGain(params.cable_room.components)
      cryoGain == getChainGain(params.cable_cryo.components)
      vA == IF idx >= 1 THEN JitterVarTerm(params.awg) ELSE 0
      vB == IF idx >= 2 THEN vA + QuantVar(params.dac.resolution) ELSE vA
      vC == IF idx >= 4 THEN ScaleVar(vB, roomGain) + RoomNoiseVar(params.cable_room)
            ELSE vB
      vD == IF idx >= 5 THEN ScaleVar(vC, cryoGain) + CryoNoiseVar(params.cable_cryo)
            ELSE vC
      vE == IF idx >= 6
            THEN ScaleVar(vD, [n |-> params.qubit.coupling, d |-> 100])
            ELSE vD
  IN  vE

\* a variant whose ceiling is T1 itself
t2LimitSingle(params) == params.qubit.t1_us * (T2_SCALE \div 10)

\* t2Limit = 2 * t1_us
t2Limit(params) == 2 * params.qubit.t1_us * (T2_SCALE \div 10)

\* total_decay_rate = 1 / (2 * t1_us) + totalNoisePower * DEPHASING_SCALE
total_decay_rate(params, activeStage) ==
  RoundDiv(RATE_SCALE * 10, 2 * params.qubit.t1_us)
  \* DEPHASING_SCALE * RATE_SCALE / VAR_SCALE = 9 rate units per variance unit
  + accumulatedNoiseVar(params, activeStage)
      * ((DEPHASING_SCALE \div 500) * (RATE_SCALE \div 2000000))

\* 1 / rate in T2 units (rounded down), for rate > 0.  The last digit is the
\* number of k in 1..9 with k * rate <= 10 * rest, computed without the
\* product 10 * rest.
Recip(rate) ==
  LET whole == (RATE_SCALE * 100) \div rate
      rest  == (RATE_SCALE * 100) % rate
      digit == Cardinality({k \in 1..9 :
                 rest >= k * (rate \div 10) + (k * (rate % 10) + 9) \div 10})
  IN  whole * (T2_SCALE \div 100) + digit

\* currentT2 = total_decay_rate > 1e-6 ? 1 / total_decay_rate : t2Limit
currentT2(params, activeStage) ==
  LET rate == total_decay_rate(params, activeStage)
  IN  IF rate > RATE_SCALE \div 1000000 THEN Recip(rate) ELSE t2Limit(params)

\* clampedT2 = Math.min(t2Limit, currentT2)
clampedT2(params, activeStage) ==
  Min(t2Limit(params), currentT2(params, activeStage))

\* a variant that seeds on every call
SeedAlways(smoothed, clamped) == clamped

\* if (smoothedT2 === 0) smoothedT2 = clampedT2
SeedT2(smoothed, clamped) == IF smoothed = 0 THEN clamped ELSE smoothed

\* a variant with the new value's weight ten times too large
SmoothHeavy(smoothed, clamped) == RoundDiv(smoothed * 95 + clamped * 50, 100)

\* smoothedT2 = smoothedT2 * 0.95 + clampedT2 * 0.05
Smooth(smoothed, clamped) == RoundDiv(smoothed * 95 + clamped * 5, 100)

\* ---------------------------------------------------------------- waveform
\* the visual frequency of a frequency given in tenths of a GHz
VizFreq(f) == 20 + (f - 40) * 2

\* e^-w for w = 0..7 and e^(-j/8) for j = 0..7, in 1/SCALE
ExpWhole == <<1000, 368, 135, 50, 18, 7, 2, 1>>

ExpEighth == <<1000, 882, 779, 687, 607, 535, 472, 417>>

\* Math.exp(-q) for q >= 0 given in thousandths, to the nearest eighth
ExpNeg(q) ==
  LET e == RoundDiv(q * 8, 1000)
  IN  IF e >= 64 THEN 0
      ELSE RoundDiv(ExpWhole[(e \div 8) + 1] * ExpEighth[(e % 8) + 1], SCALE)

\* the gaussian envelope exp(-(x * x) / (2 * sigmaSamples^2)), sigma in per
\* cent of the buffer.  With sigma 0 the quotient is -0/0 = NaN at x = 0 and
\* -Infinity elsewhere.
GaussianEnvelope(x, sigma) ==
  IF sigma = 0 THEN (IF x = 0 THEN NaN ELSE 0)
  ELSE ExpNeg(RoundDiv(x * x * 4768, sigma * sigma * 1000))

\* the library windows at winPos = num / den of the pulse; 0/0 is NaN
LibraryEnvelope(type, num, den) ==
  IF den = 0 THEN (IF type \in {"hanning", "hamming", "blackman"} THEN NaN ELSE SCALE)
  ELSE LET a == RoundDiv(num * ANGLE_DIV, den)
       IN  IF type = "hanning" THEN RoundDiv(500 * SCALE - 500 * Cos(a), SCALE)
           ELSE IF type = "hamming" THEN RoundDiv(540 * SCALE - 460 * Cos(a), SCALE)
           ELSE IF type = "blackman"
           THEN RoundDiv(420 * SCALE - 500 * Cos(a) + 80 * Cos(2 * a), SCALE)
           ELSE SCALE

\* the envelope of sample i (section 4 of simulateFrame, lines 250-305);
\* pulseWidth, riseTime and sigma in per cent of the buffer
Envelope(source, i) ==
  LET period == BUFFER_SIZE \div 2
      relPos == i % period
      center == period \div 2
      dist == Abs(relPos - center)
      \* sample counts, in hundredths of a sample
      pulseWidthSamples == source.pulseWidth * BUFFER_SIZE
      riseTimeSamples == source.riseTime * BUFFER_SIZE
      halfWidth == pulseWidthSamples \div 2
      flatHalf == halfWidth - riseTimeSamples
      d100 == dist * 100
  IN  IF source.envelopeType = "cw" THEN SCALE
      ELSE IF source.envelopeType = "rectangular"
      THEN IF d100 <= flatHalf THEN SCALE
           ELSE IF d100 <= halfWidth
           THEN IF riseTimeSamples > 0
                THEN LET distFromEdge == halfWidth - d100
                         \* (distFromEdge / riseTimeSamples) * PI, in turns
                         ang == RoundDiv(distFromEdge * (ANGLE_DIV \div 2), riseTimeSamples)
                     IN  (SCALE - Cos(ang)) \div 2
                ELSE SCALE
           ELSE 0
      ELSE IF source.envelopeType = "gaussian"
      THEN IF d100 <= halfWidth THEN GaussianEnvelope(relPos - center, source.sigma)
           ELSE 0
      ELSE IF source.envelopeType = "library"
      THEN IF d100 <= halfWidth
           THEN LibraryEnvelope(source.libraryWindow,
                                relPos * 100 - (center * 100 - halfWidth),
                                pulseWidthSamples)
           ELSE 0
      ELSE SCALE

\* the phase jitter (u - 0.5) * phaseNoise * 5, in 1/ANGLE_DIV turns
PhaseJitter(u, phaseNoise) == RoundDiv((u - 500) * phaseNoise * 3183, 1000000)

\* a variant in which the room-temperature line's gain enters the reference
\* from the mixer on
idealMultFromMixer(params, activeStage) ==
  LET idx == stageIndex(activeStage)
      m0 == [n |-> 1, d |-> 1]
      m4 == IF idx >= 3 THEN RatMul(m0, getChainGain(params.cable_room.components)) ELSE m0
      m5 == IF idx >= 5 THEN RatMul(m4, getChainGain(params.cable_cryo.components)) ELSE m4
      m6 == IF idx >= 6 THEN RatMul(m5, Norm([n |-> params.qubit.coupling, d |-> 100])) ELSE m5
  IN  m6

\* idealMult: the gains of the stages up to the cursor
idealMult(params, activeStage) ==
  LET idx == stageIndex(activeStage)
      m0 == [n |-> 1, d |-> 1]
      m4 == IF idx >= 4 THEN RatMul(m0, getChainGain(params.cable_room.components)) ELSE m0
      m5 == IF idx >= 5 THEN RatMul(m4, getChainGain(params.cable_cryo.components)) ELSE m4
      m6 == IF idx >= 6 THEN RatMul(m5, Norm([n |-> params.qubit.coupling, d |-> 100])) ELSE m5
  IN  m6

\* idealBuffer[i] = (amp * idealMult * envelope) * cos(2 PI carrierFreq t + phase)
IdealSample(params, activeStage, n, i) ==
  LET carrierFreq == VizFreq(params.mixer.loFreq) + (params.awg.ncoFreq * 20) \div 100
      a == Mul(ApplyGain(params.awg.amp, idealMult(params, activeStage)),
               Envelope(params.source, i))
  IN  Mul(a, Cos(TurnsOf(carrierFreq, n) + RadToTurns(params.awg.phase)))

\* idealSource = amp * envelope * cos(2 PI f_target t + phase)
IdealSource(params, n, i) ==
  Mul(Mul(params.awg.amp, Envelope(params.source, i)),
      Cos(TurnsOf(VizFreq(params.source.targetFreq), n) + RadToTurns(params.awg.phase)))

\* the NCO's angle with this sample's jitter
NcoAngle(params, n, u) ==
  TurnsOf((params.awg.ncoFreq * 20) \div 100, n) + RadToTurns(params.awg.phase)
  + PhaseJitter(u, params.awg.phaseNoise)

\* stage 1: the NCO's in-phase and quadrature samples
I_nco(params, n, i, u) ==
  Mul(Mul(params.awg.amp, Envelope(params.source, i)), Cos(NcoAngle(params, n, u)))

Q_nco(params, n, i, u) ==
  Mul(Mul(params.awg.amp, Envelope(params.source, i)), Sin(NcoAngle(params, n, u)))

\* levels = Math.pow(2, resolution) as a rational: a fraction below 1 for a
\* negative resolution
Levels(resolution) ==
  IF resolution >= 0 THEN [n |-> IntPow(2, resolution), d |-> 1]
  ELSE [n |-> 1, d |-> IntPow(2, -resolution)]

\* stage 2: Math.round(v * levels) / levels with levels = 2^resolution
Quantize(v, resolution) ==
  LET levels == Levels(resolution)
  IN  IF v = NaN THEN NaN
      ELSE RoundDiv(RoundDiv(v * levels.n, SCALE * levels.d) * SCALE * levels.d, levels.n)

\* a variant that adds the quadrature branch: the other sideband
MixerOutSum(mixer, n, I, Q) ==
  LET lo == TurnsOf(VizFreq(mixer.loFreq), n)
      loTermI == Cos(lo)
      loTermQ == Sin(lo + RadToTurns(mixer.iqPhaseImbalance))
      leakage == Mul(mixer.loLeakage, loTermI)
  IN  Plus(Plus(Mul(Mul(I, mixer.iqAmpImbalance), loTermI), Mul(Q, loTermQ)), leakage)

\* stage 3: I * iqAmpImbalance * loTermI - Q * loTermQ + leakage
MixerOut(mixer, n, I, Q) ==
  LET lo == TurnsOf(VizFreq(mixer.loFreq), n)
      loTermI == Cos(lo)
      loTermQ == Sin(lo + RadToTurns(mixer.iqPhaseImbalance))
      leakage == Mul(mixer.loLeakage, loTermI)
  IN  Plus(Minus(Mul(Mul(I, mixer.iqAmpImbalance), loTermI), Mul(Q, loTermQ)), leakage)

\* stage 4: the room stage's injected noise of one sample
RoomNoise(room, n, r) ==
  LET thermal == ThermalNoise(room.temp, 1, r.z1)
      hum == RoundDiv(50 * Sin(n \div 2), SCALE)
      spike == IF r.sp1 > 995 THEN RoundDiv(r.sp2 - 500, 2) ELSE 0
      noiseVal == IF room.noiseType = "interference" THEN thermal + hum + spike
                  ELSE thermal
  IN  RoundDiv(noiseVal * room.noiseIntensity, 10)

\* stage 5: thermal + flicker, from the generator's taps after next()
CryoNoise(cryo, taps, r) ==
  ThermalNoise(cryo.temp, 100, r.z2) + RoundDiv(PinkOut(taps) * cryo.flickerNoise, 500)

\* stage 6: signal * coupling
QubitOut(s, qubit) == IF s = NaN THEN NaN ELSE RoundDiv(s * qubit.coupling, 100)

\* The signal path of one sample, as the loop body carries it from stage to
\* stage: sig the signal, I and Q the baseband pair, fs the filter memory,
\* taps the pink generator's.
PathStart(params, n, i, fs, taps) ==
  [sig |-> IdealSource(params, n, i), I |-> 0, Q |-> 0, fs |-> fs, taps |-> taps]

\* STAGE 1: AWG.  I_nco and Q_nco are computed at every cursor.
StageAwg(idx, st, params, n, i, r) ==
  [st EXCEPT !.I = I_nco(params, n, i, r.jit),
             !.Q = Q_nco(params, n, i, r.jit),
             !.sig = IF idx >= 1 THEN I_nco(params, n, i, r.jit) ELSE st.sig]

\* STAGE 2: DAC
StageDac(idx, st, params) ==
  IF idx >= 2
  THEN [st EXCEPT !.I = Quantize(st.I, params.dac.resolution),
                  !.Q = Quantize(st.Q, params.dac.resolution),
                  !.sig = Quantize(st.I, params.dac.resolution)]
  ELSE st

\* STAGE 3: Mixer
StageMixer(idx, st, params, n) ==
  IF idx >= 3 THEN [st EXCEPT !.sig = MixerOut(params.mixer, n, st.I, st.Q)] ELSE st

\* the path after a chain gave c and the stage added noise
AfterChain(st, c, noise) == [st EXCEPT !.sig = Plus(c.s, noise), !.fs = c.fs]

\* STAGE 4: Room Temp
StageRoom(idx, st, params, coeffsMap, n, r) ==
  IF idx >= 4
  THEN AfterChain(st,
         processChain(st.sig, params.cable_room.components, coeffsMap, st.fs, r.amp),
         RoomNoise(params.cable_room, n, r))
  ELSE st

\* the path after pinkNoise.next() left the taps at taps
AfterPink(st, cryo, taps, r) ==
  [st EXCEPT !.sig = Plus(@, CryoNoise(cryo, taps, r)), !.taps = taps]

\* a variant that runs the cryo stage at every cursor
StageCryoAlways(idx, st, params, coeffsMap, r) ==
  AfterPink(
    AfterChain(st,
      processChain(st.sig, params.cable_cryo.components, coeffsMap, st.fs, r.amp),
      0),
    params.cable_cryo, PinkStep(st.taps, r.pk), r)

\* a variant that draws flicker from the room stage on
StageCryoFromRoom(idx, st, params, coeffsMap, r) ==
  IF idx >= 4
  THEN AfterPink(
         AfterChain(st,
           processChain(st.sig, params.cable_cryo.components, coeffsMap, st.fs, r.amp),
           0),
         params.cable_cryo, PinkStep(st.taps, r.pk), r)
  ELSE st

\* STAGE 5: Cryo
StageCryo(idx, st, params, coeffsMap, r) ==
  IF idx >= 5
  THEN AfterPink(
         AfterChain(st,
           processChain(st.sig, params.cable_cryo.components, coeffsMap, st.fs, r.amp),
           0),
         params.cable_cryo, PinkStep(st.taps, r.pk), r)
  ELSE st

\* STAGE 6: Qubit
StageQubit(idx, st, params) ==
  IF idx >= 6 THEN [st EXCEPT !.sig = QubitOut(st.sig, params.qubit)] ELSE st

\* what one pass leaves: the two buffers' samples and the memories
PassResult(st, ideal) ==
  [ideal |-> ideal, noisy |-> st.sig, fs |-> st.fs, taps |-> st.taps]

\* One pass of the sample loop: sample i of a frame at cursor activeStage, from
\* filter memory fs and pink-noise taps, with the draws r of this sample.
SampleStep(params, timeOffset, activeStage, coeffsMap, i, fs, taps, r) ==
  LET idx == stageIndex(activeStage)
      n == timeOffset + i
  IN  PassResult(
        StageQubit(idx,
          StageCryo(idx,
            StageRoom(idx,
              StageMixer(idx,
                StageDac(idx,
                  StageAwg(idx, PathStart(params, n, i, fs, taps), params, n, i, r),
                  params),
                params, n),
              params, coeffsMap, n, r),
            params, coeffsMap, r),
          params),
        IdealSample(params, activeStage, n, i))

\* a variant whose buffers hold the latest sample alone
CollectLatest(acc, st) ==
  [ideal |-> <<st.ideal>>, noisy |-> <<st.noisy>>, fs |-> st.fs, taps |-> st.taps]

\* the buffers and memories after one more pass
Collect(acc, st) ==
  [ideal |-> Append(acc.ideal, st.ideal), noisy |-> Append(acc.noisy, st.noisy),
   fs |-> st.fs, taps |-> st.taps]

\* the sample loop from sample i on; acc carries the buffers, the filter
\* memory and the taps
RECURSIVE SampleLoop(_, _, _, _, _, _, _)
SampleLoop(params, timeOffset, activeStage, coeffsMap, i, acc, rnd) ==
  IF i >= NumSamples THEN acc
  ELSE SampleLoop(params, timeOffset, activeStage, coeffsMap, i + 1,
                  Collect(acc, SampleStep(params, timeOffset, activeStage, coeffsMap,
                                          i, acc.fs, acc.taps, rnd[i + 1])),
                  rnd)

\* ----------------------------------------------------------------- metrics
\* the first twenty values of 10^(j/20), in thousandths
DecadeTab ==
  << 1000, 1122, 1259, 1413, 1585, 1778, 1995, 2239, 2512, 2818,
     3162, 3548, 3981, 4467, 5012, 5623, 6310, 7079, 7943, 8913 >>

\* 20 * Math.log10(n / d) rounded down to a whole dB, for n, d > 0
RECURSIVE Log20(_, _)
Log20(n, d) ==
  IF n >= 10 * d THEN 20 + Log20(n, 10 * d)
  ELSE IF n < d THEN Log20(10 * n, d) - 20
  ELSE LET m == IF d >= 1000000 THEN n \div (d \div 1000) ELSE (n * 1000) \div d
       IN (CHOOSE j \in 1..20 :
             /\ DecadeTab[j] <= m
             /\ (j = 20 \/ DecadeTab[j + 1] > m)) - 1

\* signalV: the peak voltage through the stages up to the cursor, as a rational
signalV(params, activeStage) ==
  LET idx == stageIndex(activeStage)
      v0 == Norm([n |-> params.awg.amp, d |-> SCALE])
      v4 == IF idx >= 4 THEN RatMul(v0, getChainGain(params.cable_room.components)) ELSE v0
      v5 == IF idx >= 5 THEN RatMul(v4, getChainGain(params.cable_cryo.components)) ELSE v4
      v6 == IF idx >= 6 THEN RatMul(v5, Norm([n |-> params.qubit.coupling, d |-> 100])) ELSE v5
  IN  v6

\* voltsToBm(vPeak), in whole dBm: 10 * log10((vPeak / sqrt 2)^2 / 50) + 30
voltsToBm(vPeak) ==
  IF vPeak.n < (vPeak.d + 999999999) \div 1000000000 THEN -140
  ELSE Log20(vPeak.n, vPeak.d) + 10

\* Teff, in hundredths of a kelvin
effectiveNoiseTemp(params, activeStage) ==
  LET roomGain == getChainGain(params.cable_room.components)
      cryoGain == getChainGain(params.cable_cryo.components)
      roomNoiseAtQubit == ApplyGain(params.cable_room.temp * 100, RatMul(roomGain, cryoGain))
      cryoNoiseAtQubit == params.cable_cryo.temp - ApplyGain(params.cable_cryo.temp, cryoGain)
  IN  IF activeStage = "cable_room" THEN params.cable_room.temp * 100
      ELSE IF activeStage \in {"cable_cryo", "qubit"}
      THEN roomNoiseAtQubit + cryoNoiseAtQubit
      ELSE 0

\* a variant that holds the peak: never below the scale of the frame before
maxAmplitudeHeld(params, activeStage) ==
  LET idx == stageIndex(activeStage)
      m0 == RoundDiv(params.awg.amp * 15, 10)
      m4 == IF idx >= 4 THEN ApplyGain(m0, getChainGain(params.cable_room.components)) ELSE m0
      m5 == IF idx >= 5 THEN ApplyGain(m4, getChainGain(params.cable_cryo.components)) ELSE m4
  IN  Max(Max(m5, 50), IF result = << >> THEN 0 ELSE result[1].maxAmplitude)

\* maxAmp = max(amp * 1.5 * gains, 0.05)
maxAmplitude(params, activeStage) ==
  LET idx == stageIndex(activeStage)
      m0 == RoundDiv(params.awg.amp * 15, 10)
      m4 == IF idx >= 4 THEN ApplyGain(m0, getChainGain(params.cable_room.components)) ELSE m0
      m5 == IF idx >= 5 THEN ApplyGain(m4, getChainGain(params.cable_cryo.components)) ELSE m4
  IN  Max(m5, 50)

\* the module's state when it has been loaded
Init ==
  /\ filterStates = << >>
  /\ pinkNoise = PinkInit
  /\ smoothedT2 = 0
  /\ idealBuffer = [i \in 1..NumSamples |-> 0]
  /\ noisyBuffer = [i \in 1..NumSamples |-> 0]
  /\ result = << >>
  /\ call = << >>
  /\ snap = << >>
  /\ prev = << >>
  /\ calls = 0
  /\ probe = << >>
  /\ app = << >>

\* the identities of the components of both chains
ChainIds(params) ==
  {params.cable_room.components[k].id : k \in 1..Len(params.cable_room.components)}
  \cup {params.cable_cryo.components[k].id : k \in 1..Len(params.cable_cryo.components)}

\* both chains' coefficient map (section 1 of simulateFrame)
CoeffsOf(params) ==
  prepareCoeffs(params.cable_cryo.components, 1,
                prepareCoeffs(params.cable_room.components, 1, << >>))

\* the object simulateFrame returns
FrameResult(params, activeStage, smoothed) ==
  [maxAmplitude |-> maxAmplitude(params, activeStage),
   estimatedT2 |-> smoothed,
   signalPowerdBm |-> voltsToBm(signalV(params, activeStage)),
   effectiveNoiseTemp |-> effectiveNoiseTemp(params, activeStage)]

\* a variant that returns a new array holding the samples
BufferCopy(name, samples) == [obj |-> "copy", samples |-> samples]

\* The idealBuffer and noisyBuffer fields of the returned object: each is the
\* module-level array of that name, not its samples.
BufferRef(name, samples) == [obj |-> name]

\* the samples read through a buffer field of a returned object
Samples(ref) ==
  IF ref.obj = "idealBuffer" THEN idealBuffer
  ELSE IF ref.obj = "noisyBuffer" THEN noisyBuffer
  ELSE ref.samples

\* The engine's state after a frame, given the clamped T2 of its configuration, the
\* loop's outcome out and the returned object res.  The history variables
\* call, snap and prev remember this call, the first one and the one before.
FrameEnd(params, timeOffset, activeStage, rnd, clamped, out, res) ==
  /\ smoothedT2' = res.estimatedT2
  /\ filterStates' = out.fs
  /\ pinkNoise' = out.taps
  /\ idealBuffer' = out.ideal
  /\ noisyBuffer' = out.noisy
  /\ result' = <<res>>
  /\ call' = <<[params |-> params, timeOffset |-> timeOffset,
               activeStage |-> activeStage, rnd |-> rnd,
               preFilter |-> filterStates, preTaps |-> pinkNoise,
               preSmoothed |-> smoothedT2,
               prevIds |-> IF call = << >> THEN {} ELSE ChainIds(call[1].params),
               clampedT2 |-> clamped, reseeded |-> (smoothedT2 = 0),
               noiseVar |-> accumulatedNoiseVar(params, activeStage),
               returned |-> [idealBuffer |-> BufferRef("idealBuffer", out.ideal),
                             noisyBuffer |-> BufferRef("noisyBuffer", out.noisy)],
               idealBuffer |-> idealBuffer', noisyBuffer |-> noisyBuffer',
               result |-> res]>>
  /\ snap' = IF snap = << >> THEN call' ELSE snap
  /\ prev' = call
  /\ calls' = calls + 1

\* the smoothed T2 a frame reports from the clamped T2 of its configuration
SmoothedFrom(clamped) == Smooth(SeedT2(smoothedT2, clamped), clamped)

\* the frame once the clamped T2 of its configuration is known
FrameWith(params, timeOffset, activeStage, rnd, clamped) ==
  FrameEnd(params, timeOffset, activeStage, rnd, clamped,
           SampleLoop(params, timeOffset, activeStage, CoeffsOf(params), 0,
                      [ideal |-> << >>, noisy |-> << >>,
                       fs |-> filterStates, taps |-> pinkNoise], rnd),
           FrameResult(params, activeStage, SmoothedFrom(clamped)))

\* simulateFrame(params, timeOffset, activeStage) with the draws rnd of its
\* samples.
simulateFrame(params, timeOffset, activeStage, rnd) ==
  FrameWith(params, timeOffset, activeStage, rnd, clampedT2(params, activeStage))

\* ------------------------------------------------------------------- inputs
\* the draws of one sample: jit the phase jitter's uniform, amp the
\* amplifiers', z1 and z2 the room and cryo Gaussian draws, sp1 and sp2 the
\* spike's uniforms, pk the pink generator's uniform
Calm == [jit |-> 500, amp |-> 500, z1 |-> 0, sp1 |-> 0, sp2 |-> 500, z2 |-> 0, pk |-> 500]

Rough == [jit |-> 999, amp |-> 999, z1 |-> 1000, sp1 |-> 999, sp2 |-> 900,
          z2 |-> -1000, pk |-> 900]

CalmPlan == [i \in 1..NumSamples |-> Calm]

RoughPlan == [i \in 1..NumSamples |-> IF i % 2 = 1 THEN Rough ELSE Calm]

Plans == {CalmPlan, RoughPlan}

Stages == {order[k] : k \in 1..Len(order)}

\* the application's starting configuration (INITIAL_STATE), with a continuous
\* wave and the room attenuator at 20 dB
BaseParams ==
  [source |-> [targetFreq |-> 62, envelopeType |-> "cw", pulseWidth |-> 50,
               riseTime |-> 5, sigma |-> 10, libraryWindow |-> "hanning"],
   awg |-> [ncoFreq |-> 20, amp |-> 1000, phase |-> 0, phaseNoise |-> 5],
   dac |-> [resolution |-> 12, sampleJitter |-> 1],
   mixer |-> [loFreq |-> 60, loLeakage |-> 20, iqAmpImbalance |-> 1000,
              iqPhaseImbalance |-> 0],
   cable_room |-> [temp |-> 300, noiseType |-> "thermal", noiseIntensity |-> 10,
                   components |-> <<[id |-> "att1", type |-> "attenuator", value |-> 20]>>],
   cable_cryo |-> [temp |-> 2, flickerNoise |-> 5,
                   components |-> <<[id |-> "att2", type |-> "attenuator", value |-> 20],
                                    [id |-> "lp1", type |-> "lowpass", value |-> 80]>>],
   qubit |-> [coupling |-> 90, t1_us |-> 300]]

\* the configuration with the cryo filter removed
NoFilterParams ==
  [BaseParams EXCEPT !.cable_cryo.components =
     <<[id |-> "att2", type |-> "attenuator", value |-> 20]>>]

\* a high-pass filter and an amplifier in the room chain, interference noise
RoomFilterParams ==
  [BaseParams EXCEPT
     !.cable_room.components =
        <<[id |-> "hp1", type |-> "highpass", value |-> 40],
          [id |-> "amp1", type |-> "amplifier", value |-> 20]>>,
     !.cable_room.noiseType = "interference",
     !.mixer.iqAmpImbalance = 1020,
     !.mixer.iqPhaseImbalance = 1,
     !.dac.resolution = 8]

\* a short-lived qubit driven at half the amplitude
LowT1Params == [BaseParams EXCEPT !.qubit.t1_us = 10, !.awg.amp = 500]

\* a long-lived qubit
HighT1Params == [NoFilterParams EXCEPT !.qubit.t1_us = 1000]

\* the noiseless configuration: continuous wave, every noise and imbalance
\* setting at zero, a 16-bit converter, full coupling, T1 = 30 us
IdealParams ==
  [NoFilterParams EXCEPT
     !.awg.phaseNoise = 0,
     !.dac.resolution = 16, !.dac.sampleJitter = 0,
     !.mixer.loLeakage = 0, !.mixer.iqAmpImbalance = 1000,
     !.mixer.iqPhaseImbalance = 0,
     !.cable_room.temp = 0, !.cable_room.noiseType = "thermal",
     !.cable_cryo.temp = 0, !.cable_cryo.flickerNoise = 0,
     !.qubit.coupling = 100, !.qubit.t1_us = 300]

\* the calls the model makes: a configuration, a timestamp, the draws of the
\* frame's samples and the cursors it is made at
Scenarios ==
  { [params |-> BaseParams, timeOffset |-> 0, rnd |-> RoughPlan, stages |-> Stages],
    [params |-> BaseParams, timeOffset |-> 5, rnd |-> CalmPlan,
     stages |-> {"source", "mixer", "qubit"}],
    [params |-> NoFilterParams, timeOffset |-> 0, rnd |-> RoughPlan,
     stages |-> {"cable_cryo", "qubit"}],
    [params |-> RoomFilterParams, timeOffset |-> 0, rnd |-> RoughPlan,
     stages |-> {"cable_room", "qubit"}] }

\* the calls of the T2 study: configurations that differ in T1 and in noise
T2Scenarios ==
  { [params |-> BaseParams, timeOffset |-> 0, rnd |-> RoughPlan,
     stages |-> {"source", "qubit"}],
    [params |-> LowT1Params, timeOffset |-> 0, rnd |-> RoughPlan,
     stages |-> {"source", "awg"}],
    [params |-> HighT1Params, timeOffset |-> 0, rnd |-> RoughPlan,
     stages |-> {"dac", "cable_cryo"}],
    [params |-> IdealParams, timeOffset |-> 0, rnd |-> CalmPlan, stages |-> {"qubit"}],
    [params |-> RoomFilterParams, timeOffset |-> 0, rnd |-> RoughPlan,
     stages |-> {"cable_room"}] }

\* ------------------------------------------------------------ specification
\* one frame of the driver: any of the calls scs, while fewer than bound
\* calls have been made
FrameOf(scs, bound) ==
  /\ calls < bound
  /\ \E sc \in scs : \E activeStage \in sc.stages :
       simulateFrame(sc.params, sc.timeOffset, activeStage, sc.rnd)
  /\ UNCHANGED <<probe, app>>

Frame == FrameOf(Scenarios, MaxCalls)

Next == Frame

Spec == Init /\ [][Next]_vars

\* the T2 study: longer behaviours over fewer calls
T2Frame == FrameOf(T2Scenarios, MaxT2Calls)

NextT2 == T2Frame

SpecT2 == Init /\ [][NextT2]_vars

\* the noiseless run: the driver may first have made a call with another
\* configuration; then it calls with the noiseless configuration on every
\* tick (the animation loop of src/index.tsx, which re-arms itself each frame),
\* the cursor staying where it was put
WarmScenarios ==
  { [params |-> LowT1Params, timeOffset |-> 0, rnd |-> RoughPlan,
     stages |-> {"source", "awg"}],
    [params |-> HighT1Params, timeOffset |-> 0, rnd |-> RoughPlan,
     stages |-> {"dac", "qubit"}],
    [params |-> BaseParams, timeOffset |-> 0, rnd |-> RoughPlan,
     stages |-> {"cable_room", "qubit"}] }

Warmup ==
  /\ call = << >>
  /\ FrameOf(WarmScenarios, MaxIdealCalls)

IdealFrame ==
  /\ calls < MaxIdealCalls
  /\ \E activeStage \in {"source", "dac", "qubit"} :
       /\ (call # << >> /\ call[1].params = IdealParams) => activeStage = call[1].activeStage
       /\ simulateFrame(IdealParams, 0, activeStage, CalmPlan)
  /\ UNCHANGED <<probe, app>>

NextIdeal == Warmup \/ IdealFrame

\* a tick of the animation loop, seen through the count of calls alone: while
\* it plays, every animation frame calls simulateFrame and asks for the next
Tick == calls < MaxIdealCalls /\ calls' = calls + 1

SpecIdeal == Init /\ [][NextIdeal]_vars /\ WF_calls(Tick)

\* processChain and getChainGain on their own: the module is loaded with a
\* chain, a sample and an amplifier draw at hand, and the two functions are
\* applied to them once
ProbeComponents ==
  { [id |-> "a1", type |-> "attenuator", value |-> 20],
    [id |-> "a2", type |-> "attenuator", value |-> 20],
    [id |-> "a3", type |-> "attenuator", value |-> 40],
    [id |-> "g1", type |-> "amplifier", value |-> 20],
    [id |-> "f1", type |-> "lowpass", value |-> 80],
    [id |-> "x1", type |-> "mystery", value |-> 20] }

\* the ordered component lists of at most MaxChainLen distinct components
ProbeChains ==
  { c \in UNION { [1..n -> ProbeComponents] : n \in 0..MaxChainLen } :
      \A i, j \in 1..Len(c) : c[i] = c[j] => i = j }

ProbeSamples == {-1500, 45, 1000}

InitChain ==
  /\ filterStates = << >>
  /\ pinkNoise = PinkInit
  /\ smoothedT2 = 0
  /\ idealBuffer = [i \in 1..NumSamples |-> 0]
  /\ noisyBuffer = [i \in 1..NumSamples |-> 0]
  /\ result = << >>
  /\ call = << >>
  /\ snap = << >>
  /\ prev = << >>
  /\ calls = 0
  /\ app = << >>
  /\ \E s \in ProbeSamples, components \in ProbeChains, u \in {500, 999} :
       probe = <<[s |-> s, components |-> components, u |-> u, done |-> FALSE,
                  out |-> 0, gain |-> [n |-> 1, d |-> 1]]>>

\* s = processChain(s, components, coeffsMap) and getChainGain(components)
ApplyChain ==
  /\ ~probe[1].done
  /\ LET p == probe[1]
         c == processChain(p.s, p.components, prepareCoeffs(p.components, 1, << >>),
                           filterStates, p.u)
     IN  /\ probe' = <<[p EXCEPT !.done = TRUE, !.out = c.s,
                                 !.gain = getChainGain(p.components)]>>
         /\ filterStates' = c.fs
  /\ UNCHANGED <<pinkNoise, smoothedT2, idealBuffer, noisyBuffer, result,
                 call, snap, prev, calls, app>>

NextChain == ApplyChain

SpecChain == InitChain /\ [][NextChain]_vars

\* ------------------------------------------------------------------ claims
\* the last call's record and the first call's
Last == call[1]

First == snap[1]

\* the filter components of a configuration's two chains
FilterIds(params) ==
  {params.cable_room.components[k].id :
     k \in {j \in 1..Len(params.cable_room.components) :
              params.cable_room.components[j].type \in FilterTypes}}
  \cup {params.cable_cryo.components[k].id :
     k \in {j \in 1..Len(params.cable_cryo.components) :
              params.cable_cryo.components[j].type \in FilterTypes}}

\* C1: after a call, no filter memory is stored for an identity that is in
\* neither chain of the call's configuration, and a filter whose identity was
\* in neither chain of the call before filters this frame from all-zero history
C1_MemoryFollowsTheChains ==
  call # << >> =>
    /\ \A id \in DOMAIN filterStates : id \in ChainIds(Last.params)
    /\ \A id \in FilterIds(Last.params) \ Last.prevIds :
         id \in DOMAIN Last.preFilter => Last.preFilter[id] = BiquadState

\* C2: two calls with the same configuration and timestamp, whatever their
\* cursors, return the same idealBuffer
C2_IdealIgnoresCursor ==
  (call # << >> /\ First.params = Last.params /\ First.timeOffset = Last.timeOffset)
    => First.idealBuffer = idealBuffer

\* the position of a stage in the pipeline, source 0 to qubit 6
Position(stage) ==
  CHOOSE k \in 0..6 :
    <<"source", "awg", "dac", "mixer", "cable_room", "cable_cryo", "qubit">>[k + 1] = stage

\* C2 as amended: two calls with the same configuration and timestamp return
\* the same idealBuffer when their cursors are the same or are both before
\* cable_room
C2_IdealBeforeTheLines ==
  (/\ call # << >>
   /\ First.params = Last.params /\ First.timeOffset = Last.timeOffset
   /\ \/ First.activeStage = Last.activeStage
      \/ Position(First.activeStage) < 4 /\ Position(Last.activeStage) < 4)
    => First.idealBuffer = idealBuffer

\* C2's case: a second call at another cursor before cable_room, same
\* configuration and timestamp, and a reference signal that is not flat
C2_Witness ==
  /\ calls = 2
  /\ First.params = Last.params /\ First.timeOffset = Last.timeOffset
  /\ First.activeStage = "source" /\ Last.activeStage = "mixer"
  /\ idealBuffer[1] # 0

\* The pipeline as the claim describes it: the effect of stage k on the
\* signal path st of one sample (sig the signal, I and Q the baseband pair,
\* fs the filter memory, taps the pink generator's).
StageEffect(k, st, params, n, i, coeffsMap, r) ==
  IF k = 0 THEN [st EXCEPT !.sig = IdealSource(params, n, i)]
  ELSE IF k = 1
  THEN [st EXCEPT !.I = I_nco(params, n, i, r.jit),
                  !.Q = Q_nco(params, n, i, r.jit),
                  !.sig = I_nco(params, n, i, r.jit)]
  ELSE IF k = 2
  THEN [st EXCEPT !.I = Quantize(st.I, params.dac.resolution),
                  !.Q = Quantize(st.Q, params.dac.resolution),
                  !.sig = Quantize(st.I, params.dac.resolution)]
  ELSE IF k = 3
  THEN [st EXCEPT !.sig = MixerOut(params.mixer, n, st.I, st.Q)]
  ELSE IF k = 4
  THEN LET c == processChain(st.sig, params.cable_room.components, coeffsMap, st.fs, r.amp)
       IN [st EXCEPT !.sig = c.s + RoomNoise(params.cable_room, n, r), !.fs = c.fs]
  ELSE IF k = 5
  THEN LET c == processChain(st.sig, params.cable_cryo.components, coeffsMap, st.fs, r.amp)
           t == PinkStep(st.taps, r.pk)
       IN [st EXCEPT !.sig = c.s + CryoNoise(params.cable_cryo, t, r),
                     !.fs = c.fs, !.taps = t]
  ELSE [st EXCEPT !.sig = QubitOut(st.sig, params.qubit)]

\* stages k..last applied in pipeline order
RECURSIVE ApplyStages(_, _, _, _, _, _, _, _)
ApplyStages(k, last, st, params, n, i, coeffsMap, r) ==
  IF k > last THEN st
  ELSE ApplyStages(k + 1, last, StageEffect(k, st, params, n, i, coeffsMap, r),
                   params, n, i, coeffsMap, r)

\* the samples 0..i of a call's frame, stages 0..cursor applied to each; gives
\* the signal path after sample i
RECURSIVE PrefixUpTo(_, _)
PrefixUpTo(c, i) ==
  LET before == IF i = 0
                THEN [sig |-> 0, I |-> 0, Q |-> 0, fs |-> c.preFilter, taps |-> c.preTaps]
                ELSE PrefixUpTo(c, i - 1)
  IN  ApplyStages(0, Position(c.activeStage), before, c.params,
                  c.timeOffset + i, i, CoeffsOf(c.params), c.rnd[i + 1])

\* C3: at every cursor N every noisyBuffer sample is the result of stages
\* 0..N applied in pipeline order and of no later stage
C3_PrefixOfThePipeline ==
  call # << >> =>
    \A i \in 0..(NumSamples - 1) : noisyBuffer[i + 1] = PrefixUpTo(Last, i).sig

\* C3's case: a frame observed after the cryogenic line, filters at work
C3_Witness ==
  /\ call # << >>
  /\ Last.activeStage = "cable_cryo"
  /\ "lp1" \in DOMAIN filterStates /\ filterStates["lp1"].y1 # 0
  /\ noisyBuffer[1] # 0 /\ noisyBuffer[2] # noisyBuffer[1]

\* the call before the last
Prev == prev[1]

\* two calls were given the same arguments and the same draws
SameInputs(c1, c2) ==
  /\ c1.params = c2.params /\ c1.timeOffset = c2.timeOffset
  /\ c1.activeStage = c2.activeStage /\ c1.rnd = c2.rnd

\* two calls found the same filter memory and the same pink-noise memory
SameMemory(c1, c2) == c1.preFilter = c2.preFilter /\ c1.preTaps = c2.preTaps

\* C4: two calls with equal configuration, timestamp and cursor, equal filter
\* and pink-noise memory and equal random draws return equal results,
\* estimatedT2 included, whatever calls were made before them
C4_PureButForTwoStores ==
  (call # << >> /\ SameInputs(First, Last) /\ SameMemory(First, Last))
    => /\ First.result = Last.result
       /\ First.idealBuffer = Last.idealBuffer
       /\ First.noisyBuffer = Last.noisyBuffer

\* C4 as amended: the smoothed T2 is a third store.  Two such calls return
\* equal buffers, maxAmplitude, signalPowerdBm and effectiveNoiseTemp; their
\* estimatedT2 is equal too when they found the same smoothed T2
C4_PureButForThreeStores ==
  /\ (call # << >> /\ SameInputs(First, Last) /\ SameMemory(First, Last))
       => /\ [First.result EXCEPT !.estimatedT2 = 0] = [Last.result EXCEPT !.estimatedT2 = 0]
          /\ First.idealBuffer = Last.idealBuffer
          /\ First.noisyBuffer = Last.noisyBuffer
  /\ (/\ prev # << >> /\ SameInputs(Prev, Last) /\ SameMemory(Prev, Last)
      /\ Prev.preSmoothed = Last.preSmoothed)
       => Prev.result = Last.result

\* C4's case: the first call repeated after a call with another
\* configuration, the memories as the first call found them
C4_Witness ==
  /\ calls = 3
  /\ SameInputs(First, Last) /\ SameMemory(First, Last)
  /\ Prev.params # Last.params
  /\ First.result.estimatedT2 # Last.result.estimatedT2
  /\ First.noisyBuffer[1] # 0

\* C5: the estimatedT2 a call returns never exceeds 2 T1 of the configuration
\* passed to that call
C5_ReportUnderTheCeiling ==
  call # << >> => result[1].estimatedT2 <= 2 * Last.params.qubit.t1_us * 100

\* C5 as amended: the T2* a call computes, before smoothing, never exceeds
\* 2 T1 of that call's configuration; the estimatedT2 it returns never exceeds
\* the larger of 2 T1 and the smoothed value the call found
C5_ClampedUnderTheCeiling ==
  call # << >> =>
    /\ Last.clampedT2 <= 2 * Last.params.qubit.t1_us * 100
    /\ result[1].estimatedT2 <= Max(Last.preSmoothed, 2 * Last.params.qubit.t1_us * 100)

\* C5's case: T1 lowered between two calls, the report above the new ceiling
C5_Witness ==
  /\ calls >= 2
  /\ Prev.params.qubit.t1_us > Last.params.qubit.t1_us
  /\ result[1].estimatedT2 > 2 * Last.params.qubit.t1_us * 100
  /\ Last.clampedT2 <= 2 * Last.params.qubit.t1_us * 100

\* a configuration with one noise setting raised by d: the phase noise, the
\* temperature of either line, or the flicker intensity
Raised(params, d) ==
  { [params EXCEPT !.awg.phaseNoise = @ + d],
    [params EXCEPT !.cable_room.temp = @ + d],
    [params EXCEPT !.cable_cryo.temp = @ + d],
    [params EXCEPT !.cable_cryo.flickerNoise = @ + d] }

\* C6: with the other parameters and the cursor fixed, the T2* a call computes
\* does not increase when awg.phaseNoise, cable_room.temp, cable_cryo.temp or
\* cable_cryo.flickerNoise increases (by the smallest step and by MaxRaise)
C6_T2FallsWithNoise ==
  call # << >> =>
    \A stage \in Stages : \A d \in {1, MaxRaise} : \A up \in Raised(Last.params, d) :
      clampedT2(up, stage) <= clampedT2(Last.params, stage)

\* C6's case: at the qubit each of the four settings, raised, shortens T2*
C6_Witness ==
  /\ call # << >>
  /\ Last.activeStage = "qubit"
  /\ \A up \in Raised(Last.params, MaxRaise) :
       clampedT2(up, "qubit") < Last.clampedT2

\* C8: the first call seeds the smoothed value with its clamped T2*, no later
\* call does, and every call reports previous * 0.95 + current * 0.05
C8_SeededOnce ==
  call # << >> =>
    /\ Last.reseeded <=> (calls = 1)
    /\ LET previous == IF calls = 1 THEN Last.clampedT2 ELSE Last.preSmoothed
       IN  /\ result[1].estimatedT2 = (previous * 190 + Last.clampedT2 * 10 + 100) \div 200
           /\ smoothedT2 = result[1].estimatedT2

\* C8's case: a third call, its T2* away from the smoothed value it found
C8_Witness ==
  /\ calls = 3
  /\ ~Last.reseeded
  /\ Last.clampedT2 # Last.preSmoothed
  /\ result[1].estimatedT2 # Last.clampedT2

\* C7: under repeated calls with the noiseless configuration (T1 = 30 us), from
\* whatever smoothed value an earlier call left, estimatedT2 comes within
\* T2Tolerance of 60 us and stays there
C7_ConvergesToTheCeiling ==
  <>[](/\ result # << >>
       /\ Abs(result[1].estimatedT2 - 60 * T2_SCALE) <= T2Tolerance
       /\ smoothedT2 = result[1].estimatedT2)

\* C7's case: the run started from a smoothed value far from 60 us and has
\* arrived
C7_Witness ==
  /\ calls = MaxIdealCalls
  /\ First.params # IdealParams /\ Last.params = IdealParams
  /\ Abs(First.result.estimatedT2 - 60 * T2_SCALE) > 50 * T2_SCALE
  /\ Abs(result[1].estimatedT2 - 60 * T2_SCALE) <= T2Tolerance

\* the chain handed to the two functions, and what they returned
Probe == probe[1]

\* what processChain returns for a zero sample, the draws being the same: the
\* amplifiers' noise alone
NoiseAlone(p) ==
  processChain(0, p.components, prepareCoeffs(p.components, 1, << >>), << >>, p.u).s

\* the product of the factors processChain multiplies by at the attenuators
\* and amplifiers of a chain, from component k on, as an exact rational
RECURSIVE FactorProduct(_, _)
FactorProduct(components, k) ==
  IF k > Len(components) THEN [n |-> 1, d |-> 1]
  ELSE LET rest == FactorProduct(components, k + 1)
           comp == components[k]
       IN  IF comp.type = "attenuator" THEN RatMul(AttenuatorGain(comp.value), rest)
           ELSE IF comp.type = "amplifier" THEN RatMul(AmplifierGain(comp.value), rest)
           ELSE rest

\* the rounding a sample has gathered after components 1..k of a filter-free
\* chain, in sample units as a rational: each attenuator scales what was
\* gathered and rounds once (half a unit), each amplifier scales it
RECURSIVE Slack(_, _)
Slack(components, k) ==
  IF k = 0 THEN [n |-> 0, d |-> 1]
  ELSE LET before == Slack(components, k - 1)
           comp == components[k]
       IN  IF comp.type = "attenuator"
           THEN LET sc == RatMul(before, AttenuatorGain(comp.value))
                IN  Norm([n |-> 2 * sc.n + sc.d, d |-> 2 * sc.d])
           ELSE RatMul(before, AmplifierGain(comp.value))

FilterFree(components) ==
  \A k \in 1..Len(components) : components[k].type \notin FilterTypes

RECURSIVE TotaldB(_, _)
TotaldB(components, k) ==
  IF k > Len(components) THEN 0 ELSE components[k].value + TotaldB(components, k + 1)

AttenuatorsOnly(components) ==
  \A k \in 1..Len(components) : components[k].type = "attenuator"

CascadeOut(T_in, G, T_phys) == ApplyGain(T_in, G) + T_phys - ApplyGain(T_phys, G)

\* C11: the effective noise temperature follows the cascade law stage by
\* stage.  At a cursor on the cryogenic line or the qubit the returned
\* temperature is, to one hundredth of a kelvin, the law applied to the
\* cryogenic chain with the temperature the engine reports at the room line
\* as its input; so a cryogenic chain of gain 1 leaves that input unchanged.
C11_CascadeStageByStage ==
  (call # << >> /\ Last.activeStage \in {"cable_cryo", "qubit"}) =>
     Abs(Last.result.effectiveNoiseTemp
         - CascadeOut(effectiveNoiseTemp(Last.params, "cable_room"),
                      getChainGain(Last.params.cable_cryo.components),
                      Last.params.cable_cryo.temp)) <= 1

\* ---------------------------------------------------------- the value ranges
\* Calls at the edges of the configuration's ranges.
MaxEdgeCalls == 2

\* eight 20 dB attenuators in the room line: 160 dB of loss
DeepLossParams ==
  [BaseParams EXCEPT !.cable_room.components =
     [k \in 1..8 |->
        [id |-> <<"pad1", "pad2", "pad3", "pad4", "pad5", "pad6", "pad7", "pad8">>[k],
         type |-> "attenuator", value |-> 20]]]

\* the generator switched off: amplitude 0
SilentParams == [BaseParams EXCEPT !.awg.amp = 0]

\* a converter of 0 bits and one of -1 bits
ZeroBitParams == [BaseParams EXCEPT !.dac.resolution = 0]

NegBitParams == [BaseParams EXCEPT !.dac.resolution = -1]

\* a gaussian pulse, and one of width sigma = 0
GaussParams == [BaseParams EXCEPT !.source.envelopeType = "gaussian"]

GaussZeroParams == [GaussParams EXCEPT !.source.sigma = 0]

\* the calls at the edges; "nowhere" is a cursor that names no stage
EdgeScenarios ==
  { [params |-> DeepLossParams, timeOffset |-> 0, rnd |-> CalmPlan,
     stages |-> {"mixer", "cable_room"}],
    [params |-> SilentParams, timeOffset |-> 5, rnd |-> RoughPlan,
     stages |-> {"source", "cable_room", "qubit"}],
    [params |-> BaseParams, timeOffset |-> 0, rnd |-> RoughPlan,
     stages |-> {"dac", "qubit", "nowhere"}],
    [params |-> ZeroBitParams, timeOffset |-> 0, rnd |-> RoughPlan,
     stages |-> {"dac"}],
    [params |-> GaussZeroParams, timeOffset |-> 0, rnd |-> RoughPlan,
     stages |-> {"source", "qubit"}] }

\* a variant in which a cursor that names no stage raises an exception
ThrowsOnUnknownCursor(params, activeStage) == stageIndex(activeStage) < 0

\* Whether simulateFrame(params, _, activeStage) raises an exception.  Its body
\* has no throw statement, reads properties of objects the configuration's
\* type always provides, looks filter coefficients up behind if (coeffs), and
\* is arithmetic on numbers otherwise, which gives NaN or Infinity but raises
\* nothing.
Throws(params, activeStage) == FALSE

\* an exception leaves loop() before requestAnimationFrame(loop): the engine
\* is as it was and no frame follows
Thrown ==
  /\ app' = <<"stopped">>
  /\ UNCHANGED <<engine, probe>>

\* one frame of the loop, as long as no exception has stopped it
EdgeFrame ==
  /\ calls < MaxEdgeCalls
  /\ app = << >>
  /\ \E sc \in EdgeScenarios : \E activeStage \in sc.stages :
       IF Throws(sc.params, activeStage) THEN Thrown
       ELSE /\ simulateFrame(sc.params, sc.timeOffset, activeStage, sc.rnd)
            /\ UNCHANGED <<probe, app>>

NextEdge == EdgeFrame

SpecEdge == Init /\ [][NextEdge]_vars

\* --------------------------------------------------------------- the power
\* C12: for every configuration and cursor the returned signalPowerdBm is
\* never below the floor of -140 dBm.
C12_PowerAboveTheFloor ==
  result # << >> => result[1].signalPowerdBm >= -140

\* -------------------------------------------------------------- the buffers
\* C13: both buffers have the fixed length (NumSamples samples here) for every
\* configuration, timestamp and cursor, after any sequence of calls; so have
\* the buffers the last call returned.
C13_BuffersKeepTheirLength ==
  /\ Len(idealBuffer) = NumSamples
  /\ Len(noisyBuffer) = NumSamples
  /\ call # << >> => /\ Len(Last.idealBuffer) = NumSamples
                     /\ Len(Last.noisyBuffer) = NumSamples

\* a second call, with another configuration, timestamp and cursor than the
\* first, has returned its buffers
C13_Witness ==
  /\ calls = 2
  /\ Last.params # First.params
  /\ Last.timeOffset # First.timeOffset
  /\ Last.activeStage # First.activeStage
  /\ Len(Last.noisyBuffer) = NumSamples

\* ------------------------------------------------------- one pass of the loop
\* The loop body on its own: the module is loaded, a configuration, a
\* timestamp, a cursor, a sample index and the draws of that sample are at
\* hand, and one pass of the sample loop is made for them.

\* both chains empty, every noise and imbalance setting at zero, full coupling
UnityParams ==
  [IdealParams EXCEPT !.cable_room.components = << >>,
                      !.cable_cryo.components = << >>]

\* the same with an 8-bit converter and a rectangular pulse
UnityPulseParams ==
  [UnityParams EXCEPT !.dac.resolution = 8, !.source.envelopeType = "rectangular"]

\* the same with the room line's noise type set to interference
UnityHumParams == [UnityParams EXCEPT !.cable_room.noiseType = "interference"]

\* the same with a low-pass filter in the cryo line: no attenuator, no amplifier
UnityFilterParams ==
  [UnityParams EXCEPT !.cable_cryo.components =
     <<[id |-> "lp1", type |-> "lowpass", value |-> 80]>>]

\* the same with 20 dB of loss made up by a 20 dB amplifier in the room line
UnityAmpParams ==
  [UnityParams EXCEPT !.cable_room.components =
     <<[id |-> "att1", type |-> "attenuator", value |-> 20],
       [id |-> "amp1", type |-> "amplifier", value |-> 20]>>]

\* a 0 dB attenuator in the room line
UnityPadParams ==
  [UnityPulseParams EXCEPT !.cable_room.components =
     <<[id |-> "att1", type |-> "attenuator", value |-> 0]>>]

\* a rectangular pulse with rise time 0
SharpPulseParams ==
  [BaseParams EXCEPT !.source.envelopeType = "rectangular", !.source.riseTime = 0]

\* a pulse from the window library
LibraryParams ==
  [BaseParams EXCEPT !.source.envelopeType = "library",
                     !.source.libraryWindow = "blackman"]

SampleParams ==
  { UnityParams, UnityPulseParams, UnityHumParams, UnityFilterParams,
    UnityAmpParams, UnityPadParams, BaseParams, ZeroBitParams, NegBitParams,
    GaussParams, GaussZeroParams, SharpPulseParams, LibraryParams }

\* sample indices at the start, inside, at the centre and at the end of a pulse
SampleIndices == {0, 1, 100, 255, 256, 257, 511, 768}

SampleTimes == {0, 37}

InitSample ==
  /\ filterStates = << >>
  /\ pinkNoise = PinkInit
  /\ smoothedT2 = 0
  /\ idealBuffer = [i \in 1..NumSamples |-> 0]
  /\ noisyBuffer = [i \in 1..NumSamples |-> 0]
  /\ result = << >>
  /\ call = << >>
  /\ snap = << >>
  /\ prev = << >>
  /\ calls = 0
  /\ app = << >>
  /\ \E params \in SampleParams, timeOffset \in SampleTimes, activeStage \in Stages,
        i \in SampleIndices, r \in {Calm, Rough} :
       probe = <<[params |-> params, timeOffset |-> timeOffset,
                  activeStage |-> activeStage, i |-> i, r |-> r,
                  done |-> FALSE, ideal |-> 0, noisy |-> 0]>>

\* what the pass st leaves
AfterSample(st) ==
  /\ probe' = <<[probe[1] EXCEPT !.done = TRUE, !.ideal = st.ideal, !.noisy = st.noisy]>>
  /\ filterStates' = st.fs
  /\ pinkNoise' = st.taps
  /\ UNCHANGED <<smoothedT2, idealBuffer, noisyBuffer, result, call, snap, prev,
                 calls, app>>

\* the pass of the loop for sample i
ApplySample ==
  /\ ~probe[1].done
  /\ AfterSample(SampleStep(probe[1].params, probe[1].timeOffset, probe[1].activeStage,
                            CoeffsOf(probe[1].params), probe[1].i,
                            filterStates, pinkNoise, probe[1].r))

NextSample == ApplySample

SpecSample == InitSample /\ [][NextSample]_vars

\* ---------------------------------------------------------- the clean path
\* the settings the claim lists: phase noise, leakage, phase imbalance,
\* temperatures and flicker zero, amplitude imbalance 1, chains of gain 1,
\* coupling 1
Zeroed(params) ==
  /\ params.awg.phaseNoise = 0
  /\ params.mixer.loLeakage = 0
  /\ params.mixer.iqPhaseImbalance = 0
  /\ params.mixer.iqAmpImbalance = SCALE
  /\ params.cable_room.temp = 0
  /\ params.cable_cryo.temp = 0
  /\ params.cable_cryo.flickerNoise = 0
  /\ getChainGain(params.cable_room.components) = [n |-> 1, d |-> 1]
  /\ getChainGain(params.cable_cryo.components) = [n |-> 1, d |-> 1]
  /\ params.qubit.coupling = 100

\* the rounding the fixed-point arithmetic of one pass may add up to, in 1/SCALE
SampleSlack == 2

\* one quantization step of the converter plus the rounding of the arithmetic
Tolerance(params) == SCALE \div IntPow(2, params.dac.resolution) + SampleSlack

\* a chain that leaves the sample alone: 0 dB attenuators and amplifiers only
Transparent(components) ==
  \A k \in 1..Len(components) :
     components[k].type \in {"attenuator", "amplifier"} /\ components[k].value = 0

\* C14 as stated: with the listed settings zeroed, chains of gain 1 and
\* coupling 1, at cursor qubit the noisy sample equals the ideal sample of the
\* same index up to the tolerance.
C14_NoisyIsIdeal ==
  (Probe.done /\ Zeroed(Probe.params) /\ Probe.activeStage = "qubit") =>
     Abs(Probe.noisy - Probe.ideal) <= Tolerance(Probe.params)

\* C14, amended: the same when, in addition, the room line's noise is thermal
\* and both chains are transparent.
C14_NoisyIsIdealWhenQuiet ==
  ( /\ Probe.done /\ Zeroed(Probe.params) /\ Probe.activeStage = "qubit"
    /\ Probe.params.cable_room.noiseType = "thermal"
    /\ Transparent(Probe.params.cable_room.components)
    /\ Transparent(Probe.params.cable_cryo.components) ) =>
     Abs(Probe.noisy - Probe.ideal) <= Tolerance(Probe.params)

\* a sample off the carrier's zero has come through a transparent attenuator
\* at cursor qubit and equals the reference to the tolerance
C14_Witness ==
  /\ Probe.done /\ Zeroed(Probe.params) /\ Probe.activeStage = "qubit"
  /\ Probe.params.cable_room.noiseType = "thermal"
  /\ Probe.params.cable_room.components # << >>
  /\ Transparent(Probe.params.cable_room.components)
  /\ Transparent(Probe.params.cable_cryo.components)
  /\ Probe.timeOffset > 0
  /\ Abs(Probe.ideal) > 500
  /\ Abs(Probe.noisy - Probe.ideal) <= Tolerance(Probe.params)

\* ------------------------------------------------------------------ the App
\* The App component of src/index.tsx driving the engine.  A step is one
\* callback run to its end: the mount, an animation frame, or a user event
\* with the render and the effects it causes.
MaxAppSteps == 4

AppConfigs == {BaseParams, LowT1Params}

AppStages == {"qubit", "dac"}

AppSpeeds == {1, 2}

\* useState and useRef at the first render; event, caller and steps are history
AppInit ==
  [mounted |-> FALSE, isPlaying |-> TRUE, params |-> BaseParams,
   activeStage |-> "qubit", animationSpeed |-> 1,
   paramsRef |-> BaseParams, activeStageRef |-> "qubit", timeRef |-> 0,
   frameCount |-> 0, metrics |-> [t2 |-> 0, power |-> -100, temp |-> 0],
   event |-> "none", caller |-> "none", steps |-> 0]

InitApp ==
  /\ filterStates = << >>
  /\ pinkNoise = PinkInit
  /\ smoothedT2 = 0
  /\ idealBuffer = [i \in 1..NumSamples |-> 0]
  /\ noisyBuffer = [i \in 1..NumSamples |-> 0]
  /\ result = << >>
  /\ call = << >>
  /\ snap = << >>
  /\ prev = << >>
  /\ calls = 0
  /\ probe = << >>
  /\ app = AppInit

\* a variant of the loop that computes whether playing or not
LoopRunsAlways(a) == TRUE

\* the loop's guard: if (isPlaying)
LoopRuns(a) == a.isPlaying

\* a variant of the effect that computes whether paused or not
EffectRunsAlways(a) == TRUE

\* the effect's guard: if (!isPlaying)
EffectRuns(a) == ~a.isPlaying

\* setMetrics' argument for the result res
MetricsOf(res) ==
  [t2 |-> res.estimatedT2, power |-> res.signalPowerdBm, temp |-> res.effectiveNoiseTemp]

\* the body of loop() while playing, from the component's state a
LoopCall(a, rnd) ==
  /\ simulateFrame(a.paramsRef, a.timeRef + 5 * a.animationSpeed, a.activeStageRef, rnd)
  /\ app' = [a EXCEPT !.timeRef = @ + 5 * a.animationSpeed,
                      !.frameCount = @ + 1,
                      !.metrics = IF a.frameCount % 10 = 0 THEN MetricsOf(result'[1]) ELSE @,
                      !.caller = "loop"]

\* the body of the secondary effect while paused
EffectCall(a, rnd) ==
  /\ simulateFrame(a.params, a.timeRef, a.activeStage, rnd)
  /\ app' = [a EXCEPT !.metrics = MetricsOf(result'[1]), !.caller = "effect"]

\* a callback that leaves the engine alone
NoCall(a) ==
  /\ app' = a
  /\ UNCHANGED engine

\* The effects of a render that left the component in state a: the loop
\* effect when loopDeps changed (the old loop is cancelled, frameCount starts
\* from 0 and loop() is called at once), then the secondary effect when
\* effectDeps changed.
Commit(a, loopDeps, effectDeps, rnd) ==
  IF loopDeps /\ LoopRuns(a) THEN LoopCall([a EXCEPT !.frameCount = 0], rnd)
  ELSE IF effectDeps /\ EffectRuns(a)
  THEN EffectCall([a EXCEPT !.frameCount = IF loopDeps THEN 0 ELSE @], rnd)
  ELSE NoCall([a EXCEPT !.frameCount = IF loopDeps THEN 0 ELSE @])

\* the component's state at the start of the next callback
Stepped(event) == [app EXCEPT !.steps = @ + 1, !.event = event]

\* the first render's effects
Mount ==
  /\ ~app.mounted
  /\ app.steps < MaxAppSteps
  /\ Commit([Stepped("mount") EXCEPT !.mounted = TRUE], TRUE, TRUE, RoughPlan)
  /\ UNCHANGED probe

\* requestAnimationFrame's callback: loop()
AnimationFrame ==
  /\ app.mounted
  /\ app.steps < MaxAppSteps
  /\ IF LoopRuns(app) THEN LoopCall(Stepped("frame"), RoughPlan)
     ELSE NoCall(Stepped("frame"))
  /\ UNCHANGED probe

\* the Stop / Resume button: setIsPlaying(!isPlaying)
TogglePlay ==
  /\ app.mounted
  /\ app.steps < MaxAppSteps
  /\ Commit([Stepped("toggle") EXCEPT !.isPlaying = ~@], TRUE, TRUE, RoughPlan)
  /\ UNCHANGED probe

\* updateParam / updateComponents: setParams with a new object
SetParams ==
  /\ app.mounted
  /\ app.steps < MaxAppSteps
  /\ \E p \in AppConfigs :
       Commit([Stepped("params") EXCEPT !.params = p, !.paramsRef = p],
              FALSE, TRUE, RoughPlan)
  /\ UNCHANGED probe

\* a click on a stage: setActiveStage with another stage
SetActiveStage ==
  /\ app.mounted
  /\ app.steps < MaxAppSteps
  /\ \E s \in AppStages \ {app.activeStage} :
       Commit([Stepped("stage") EXCEPT !.activeStage = s, !.activeStageRef = s],
              FALSE, TRUE, RoughPlan)
  /\ UNCHANGED probe

\* the speed slider: setAnimationSpeed with another speed
SetAnimationSpeed ==
  /\ app.mounted
  /\ app.steps < MaxAppSteps
  /\ \E v \in AppSpeeds \ {app.animationSpeed} :
       Commit([Stepped("speed") EXCEPT !.animationSpeed = v], TRUE, FALSE, RoughPlan)
  /\ UNCHANGED probe

NextApp ==
  \/ Mount
  \/ AnimationFrame
  \/ TogglePlay
  \/ SetParams
  \/ SetActiveStage
  \/ SetAnimationSpeed

SpecApp == InitApp /\ [][NextApp]_vars

\* C15: while the driver is paused the time accumulator is not advanced, and
\* every change of the configuration or of the cursor brings one full
\* simulateFrame call with the new configuration and cursor at the frozen
\* timestamp, whose buffers and result are the ones on display.
C15_PausedRecomputes ==
  [][ (app.mounted /\ ~app.isPlaying /\ ~app'.isPlaying) =>
        /\ app'.timeRef = app.timeRef
        /\ (app'.params # app.params \/ app'.activeStage # app.activeStage) =>
             /\ calls' = calls + 1
             /\ call'[1].params = app'.params
             /\ call'[1].activeStage = app'.activeStage
             /\ call'[1].timeOffset = app.timeRef
             /\ idealBuffer' = call'[1].idealBuffer
             /\ noisyBuffer' = call'[1].noisyBuffer
             /\ app'.metrics = MetricsOf(result'[1]) ]_vars

\* paused after the loop had advanced the time, the configuration was changed
\* and the last call is the effect's, with the new configuration at that time
C15_Witness ==
  /\ app.mounted /\ ~app.isPlaying
  /\ app.event = "params" /\ app.caller = "effect"
  /\ app.params # BaseParams
  /\ app.timeRef > 0
  /\ Last.params = app.params
  /\ Last.timeOffset = app.timeRef
  /\ prev # << >> /\ prev[1].params = BaseParams /\ prev[1].timeOffset = app.timeRef

\* C16: no two frame computations overlap.  A step makes at most one
\* simulateFrame call; the call is the loop's only while playing and the
\* effect's only while paused; and the filter and pink-noise memories change
\* in no step but one that makes a call, which has run to its end when the
\* step is over.
C16_OneCallAtATime ==
  [][ /\ calls' # calls =>
           /\ calls' = calls + 1
           /\ app'.caller \in {"loop", "effect"}
           /\ app'.caller = "loop" => app'.isPlaying
           /\ app'.caller = "effect" => ~app'.isPlaying
           /\ call'[1].preFilter = filterStates /\ call'[1].preTaps = pinkNoise
      /\ (filterStates' # filterStates \/ pinkNoise' # pinkNoise) => calls' = calls + 1
      /\ ~(LoopRuns(app') /\ EffectRuns(app')) ]_vars

\* both drivers have called: the loop while playing, then, paused, the effect
C16_Witness ==
  /\ calls >= 2
  /\ app.caller = "effect" /\ ~app.isPlaying
  /\ app.timeRef > 0
  /\ prev # << >> /\ prev[1].timeOffset = app.timeRef
  /\ filterStates # Last.preFilter

\* ------------------------------------------------------------ unknown kinds
\* the five kinds of component the configuration knows
KnownKinds == {"attenuator", "amplifier", "lowpass", "highpass", "notch"}

IsKnown(comp) == comp.type \in KnownKinds

\* the chain with the components of unknown kind taken out
Known(components) == SelectSeq(components, IsKnown)

\* C17: a component of a kind other than attenuator, amplifier, lowpass,
\* highpass and notch is a no-op.  processChain gives for a chain the sample
\* it gives for the chain without its components of unknown kind: the sample
\* passes them unchanged and the components after them are still applied.
C17_UnknownKindIsSkipped ==
  (probe # << >> /\ Probe.done) =>
     Probe.out = processChain(Probe.s, Known(Probe.components),
                              prepareCoeffs(Known(Probe.components), 1, << >>),
                              << >>, Probe.u).s

\* a chain whose first component is of unknown kind and whose later
\* components have changed the sample
C17_Witness ==
  /\ probe # << >> /\ Probe.done
  /\ Len(Probe.components) >= 2
  /\ ~IsKnown(Probe.components[1])
  /\ \E k \in 2..Len(Probe.components) : Probe.components[k].type \in FilterTypes
  /\ \E k \in 2..Len(Probe.components) : Probe.components[k].type = "attenuator"
  /\ Probe.out # Probe.s

\* ------------------------------------------------------------ the quantizer
\* C18: for a resolution N <= 0 the quantizer is guarded and uses at least
\* one level.  The number of levels is then not below 1, and at cursor dac the
\* sample is the NCO's in-phase sample rounded to a whole number of steps of
\* one level (a whole number of volts).
C18_AtLeastOneLevel ==
  (probe # << >> /\ Probe.done /\ Probe.params.dac.resolution <= 0
     /\ Probe.activeStage = "dac") =>
     /\ Levels(Probe.params.dac.resolution).n >= Levels(Probe.params.dac.resolution).d
     /\ Probe.noisy = SCALE * RoundDiv(I_nco(Probe.params, Probe.timeOffset + Probe.i,
                                             Probe.i, Probe.r.jit), SCALE)

\* --------------------------------------------------------- finite samples
\* a configuration with one of the out-of-domain values: a gaussian pulse of
\* sigma 0, a converter of 0 bits, a rectangular pulse of rise time 0
OutOfDomain(params) ==
  \/ params.source.envelopeType = "gaussian" /\ params.source.sigma = 0
  \/ params.dac.resolution = 0
  \/ params.source.envelopeType = "rectangular" /\ params.source.riseTime = 0

\* C19: with Gaussian sigma = 0, DAC resolution = 0 or rise time = 0, every
\* sample of both buffers is a finite number.
C19_SamplesAreFinite ==
  (probe # << >> /\ Probe.done /\ OutOfDomain(Probe.params)) =>
     Probe.ideal # NaN /\ Probe.noisy # NaN

\* ----------------------------------------------------------- no exception
\* a frame whose signal buffer came out flat
Flat == \A k \in 1..NumSamples : noisyBuffer[k] = 0

C21_EnvelopeInUnitRange ==
  (probe # << >> /\ Probe.done) =>
     Envelope(Probe.params.source, Probe.i) \in 0..SCALE

\* ------------------------------------------------------ the pink generator
\* the taps after one next() per sample, from sample k of the draws rnd on
RECURSIVE Advanced(_, _, _)
Advanced(taps, rnd, k) ==
  IF k > Len(rnd) THEN taps ELSE Advanced(PinkStep(taps, rnd[k].pk), rnd, k + 1)

\* C22: there is one pink-noise generator and simulateFrame never resets or
\* replaces it.  A frame whose cursor is at or beyond cable_cryo advances it
\* once per sample from where the frame before left it; any other frame leaves
\* it untouched.
C22_GeneratorOnlyAdvances ==
  [][calls' = calls + 1 =>
       pinkNoise' = IF stageIndex(call'[1].activeStage) >= 5
                    THEN Advanced(pinkNoise, call'[1].rnd, 1)
                    ELSE pinkNoise]_vars

\* a second frame at the cryo stage or beyond has advanced taps that an
\* earlier frame had already moved
C22_Witness ==
  /\ calls = 2
  /\ stageIndex(Last.activeStage) >= 5
  /\ Last.preTaps # PinkInit
  /\ pinkNoise # Last.preTaps
  /\ pinkNoise # PinkInit

\* ----------------------------------------------------- the spectrum analyzer
\* computeMagnitudes of the Spectrum component.  The windowed samples and the
\* FFT's real and imaginary parts are in millionths; the window table is in
\* 1e-8; the twiddle factors are in 1/SCALE.  Array index i of the source is
\* index i + 1 here.

\* the first eight entries of the Blackman-Harris table
\* a0 - a1 cos(2 PI i / 1023) + a2 cos(4 PI i / 1023) - a3 cos(6 PI i / 1023)
windowTable ==
  << 6000, 6053, 6214, 6481, 6855, 7337, 7927, 8626 >>

\* real[i] = signal[i] * windowTable[i], imag[i] = 0
Windowed(signal) ==
  [real |-> [k \in 1..Len(signal) |->
               IF signal[k] = NaN THEN NaN
               ELSE RoundDiv(signal[k] * windowTable[k], 100000)],
   imag |-> [k \in 1..Len(signal) |-> 0]]

\* [a[i], a[j]] = [a[j], a[i]]
Swap(a, i, j) == [a EXCEPT ![i + 1] = a[j + 1], ![j + 1] = a[i + 1]]

\* a variant that swaps whenever the two indices differ
SwapsUnlessEqual(i, j) == i # j

\* the loop's test for a swap
Swaps(i, j) == i < j

\* let k = n / 2; while (k <= j) { j -= k; k /= 2; } j += k;
RECURSIVE NextJ(_, _)
NextJ(j, k) == IF k >= 1 /\ k <= j THEN NextJ(j - k, k \div 2) ELSE j + k

\* d after the pass of the bit-reversal loop for index i
Reversed(d, i, j) ==
  IF Swaps(i, j) THEN [real |-> Swap(d.real, i, j), imag |-> Swap(d.imag, i, j)]
  ELSE d

\* the bit-reversal loop from index i on, for (let i = 0; i < n - 1; i++)
RECURSIVE BitReversal(_, _, _, _)
BitReversal(d, n, i, j) ==
  IF i >= n - 1 THEN d
  ELSE BitReversal(Reversed(d, i, j), n, i + 1, NextJ(j, n \div 2))

\* v_r and v_i of one butterfly: the element at b times the twiddle factor w
V_r(d, b, w) == Minus(Mul(d.real[b], w.r), Mul(d.imag[b], w.i))

V_i(d, b, w) == Plus(Mul(d.real[b], w.i), Mul(d.imag[b], w.r))

\* one butterfly on the elements at a and b
Butterfly(d, a, b, vr, vi) ==
  [real |-> [d.real EXCEPT ![a] = Plus(d.real[a], vr), ![b] = Minus(d.real[a], vr)],
   imag |-> [d.imag EXCEPT ![a] = Plus(d.imag[a], vi), ![b] = Minus(d.imag[a], vi)]]

\* w times wlen
Twiddle(w, wlen) ==
  [r |-> Mul(w.r, wlen.r) - Mul(w.i, wlen.i),
   i |-> Mul(w.r, wlen.i) + Mul(w.i, wlen.r)]

\* for (let j = 0; j < len / 2; j++) of the block that starts at i
RECURSIVE InnerLoop(_, _, _, _, _, _)
InnerLoop(d, i, j, len, w, wlen) ==
  IF j >= len \div 2 THEN d
  ELSE InnerLoop(Butterfly(d, i + j + 1, i + j + (len \div 2) + 1,
                           V_r(d, i + j + (len \div 2) + 1, w),
                           V_i(d, i + j + (len \div 2) + 1, w)),
                 i, j + 1, len, Twiddle(w, wlen), wlen)

\* for (let i = 0; i < n; i += len)
RECURSIVE BlockLoop(_, _, _, _, _)
BlockLoop(d, i, n, len, wlen) ==
  IF i >= n THEN d
  ELSE BlockLoop(InnerLoop(d, i, 0, len, [r |-> SCALE, i |-> 0], wlen),
                 i + len, n, len, wlen)

\* for (let len = 2; len <= n; len <<= 1), with angle = -2 PI / len
RECURSIVE StageLoop(_, _, _)
StageLoop(d, len, n) ==
  IF len > n THEN d
  ELSE StageLoop(BlockLoop(d, 0, n, len,
                           [r |-> Cos(-(ANGLE_DIV \div len)),
                            i |-> Sin(-(ANGLE_DIV \div len))]),
                 len * 2, n)

\* Math.sqrt(re * re + im * im) / n
Magnitude(re, im, n) ==
  IF re = NaN \/ im = NaN THEN NaN ELSE RoundDiv(ISqrt(re * re + im * im), n)

\* mids: the first n / 2 magnitudes
Mids(d, n) == [k \in 1..(n \div 2) |-> Magnitude(d.real[k], d.imag[k], n)]

\* a variant that works in the array it is given
SignalInPlace(signal, d) == d.real

\* the caller's array after the call: real and imag are new arrays, the
\* signal is only read
SignalAfter(signal, d) == signal

\* what a call leaves: the caller's array, the arrays after the bit-reversal
\* loop (rev), and the magnitudes returned
Analysis(signal, rev) ==
  [signal |-> SignalAfter(signal, rev),
   rev |-> rev,
   mids |-> Mids(StageLoop(rev, 2, Len(signal)), Len(signal))]

\* computeMagnitudes(signal), for a signal of a power-of-two length
computeMagnitudes(signal) ==
  Analysis(signal, BitReversal(Windowed(signal), Len(signal), 0, 0))

\* The Spectrum component beside the engine: the driver calls simulateFrame
\* and stores the result in simRef; on each of its own animation frames the
\* component's render reads simRef.current and, when it is set, calls
\* computeMagnitudes(sim.noisyBuffer).

\* renders in one behaviour
MaxRenders == 2

\* the largest power of two that is at most n, for n >= 1
RECURSIVE Pow2UpTo(_)
Pow2UpTo(n) == IF n < 2 THEN 1 ELSE 2 * Pow2UpTo(n \div 2)

\* The part of a buffer the model hands to computeMagnitudes.  The program's
\* buffer has BUFFER_SIZE samples, a power of two; of the samples the model
\* keeps, the analyzer is given the longest run of a power-of-two length.
Analyzed(buffer) == SubSeq(buffer, 1, Pow2UpTo(Len(buffer)))

\* the number of renders that have computed a spectrum
Renders == IF probe = << >> THEN 0 ELSE probe[1].renders

\* the state after computeMagnitudes left out: mags of this render, and the
\* buffer and magnitudes of the render before (history)
Rendered(out) ==
  /\ noisyBuffer' = out.signal \o SubSeq(noisyBuffer, Len(out.signal) + 1, Len(noisyBuffer))
  /\ probe' = <<[renders |-> Renders + 1,
                 seen |-> noisyBuffer, mags |-> out.mids,
                 seenBefore |-> IF probe = << >> THEN << >> ELSE probe[1].seen,
                 magsBefore |-> IF probe = << >> THEN << >> ELSE probe[1].mags]>>
  /\ UNCHANGED <<filterStates, pinkNoise, smoothedT2, idealBuffer, result, call,
                 snap, prev, calls, app>>

\* one run of render with simRef.current set
Render ==
  /\ result # << >>
  /\ Renders < MaxRenders
  /\ Rendered(computeMagnitudes(Analyzed(noisyBuffer)))

ScopeFrame == FrameOf(Scenarios, MaxCalls)

NextScope == ScopeFrame \/ Render

SpecScope == Init /\ [][NextScope]_vars

MaxFilterCalls == 3

\* chains with a filter first, after an attenuator, before an amplifier, and
\* with two filters in a row
BiquadChains ==
  { <<[id |-> "f1", type |-> "lowpass", value |-> 80]>>,
    <<[id |-> "a1", type |-> "attenuator", value |-> 20],
      [id |-> "f1", type |-> "lowpass", value |-> 80]>>,
    <<[id |-> "f2", type |-> "notch", value |-> 60],
      [id |-> "g1", type |-> "amplifier", value |-> 20]>>,
    <<[id |-> "f3", type |-> "highpass", value |-> 40],
      [id |-> "f1", type |-> "lowpass", value |-> 80]>> }

InitBiquad ==
  /\ filterStates = << >>
  /\ pinkNoise = PinkInit
  /\ smoothedT2 = 0
  /\ idealBuffer = [i \in 1..NumSamples |-> 0]
  /\ noisyBuffer = [i \in 1..NumSamples |-> 0]
  /\ result = << >>
  /\ call = << >>
  /\ snap = << >>
  /\ prev = << >>
  /\ calls = 0
  /\ app = << >>
  /\ \E components \in BiquadChains :
       probe = <<[components |-> components, made |-> 0, s |-> 0, u |-> 500,
                  out |-> 0]>>

\* what the call that gave c leaves
AfterFilterCall(s, u, c) ==
  /\ probe' = <<[probe[1] EXCEPT !.made = @ + 1, !.s = s, !.u = u, !.out = c.s]>>
  /\ filterStates' = c.fs
  /\ UNCHANGED <<pinkNoise, smoothedT2, idealBuffer, noisyBuffer, result,
                 call, snap, prev, calls, app>>

\* s = processChain(s, components, coeffsMap) for one more sample
FilterCall ==
  /\ probe[1].made < MaxFilterCalls
  /\ \E s \in ProbeSamples, u \in {500, 999} :
       AfterFilterCall(s, u,
         processChain(s, probe[1].components,
                      prepareCoeffs(probe[1].components, 1, << >>), filterStates, u))

NextBiquad == FilterCall

SpecBiquad == InitBiquad /\ [][NextBiquad]_vars

\* the history of component id before a call: the stored one, zeros when none
HistoryOf(fs, id) ==
  IF id \in DOMAIN fs THEN fs[id] ELSE [x1 |-> 0, x2 |-> 0, y1 |-> 0, y2 |-> 0]

\* the sample that reaches component k of the chain: what the components
\* before it make of sample s
InputOf(components, k, s, fs, u) ==
  processChain(s, SubSeq(components, 1, k - 1),
               prepareCoeffs(components, 1, << >>), fs, u).s

\* b0*x + b1*x1 + b2*x2 - a1*y1 - a2*y2
DirectFormI(c, h, x) ==
  RoundDiv(c.b0 * x + c.b1 * h.x1 + c.b2 * h.x2 - c.a1 * h.y1 - c.a2 * h.y2,
           COEF_SCALE)

LineStage(active, v, g, own) == IF active THEN ScaleVar(v, g) + own ELSE v

\* the variance of the stages before the lines
BeforeTheLines(params, idx) ==
  (IF idx >= 1 THEN JitterVarTerm(params.awg) ELSE 0)
  + (IF idx >= 2 THEN QuantVar(params.dac.resolution) ELSE 0)

\* the variance after the room stage and after the cryo stage
AfterRoom(params, idx) ==
  LineStage(idx >= 4, BeforeTheLines(params, idx),
            getChainGain(params.cable_room.components),
            RoomNoiseVar(params.cable_room))

AfterCryo(params, idx) ==
  LineStage(idx >= 5, AfterRoom(params, idx),
            getChainGain(params.cable_cryo.components),
            CryoNoiseVar(params.cable_cryo))

FftLengths == {2, 4, 8}

\* signals of n samples, in 1/SCALE volt: rising and falling ramps, a constant,
\* an alternation, and one pulse of each of four heights at each position
Ramp(n) == [k \in 1..n |-> 1000 + 50 * k]

RampDown(n) == [k \in 1..n |-> 2000 - 100 * k]

Constant(n) == [k \in 1..n |-> 1000]

Alternating(n) == [k \in 1..n |-> IF k % 2 = 1 THEN 1500 ELSE -1500]

Impulse(n, p, a) == [k \in 1..n |-> IF k = p THEN a ELSE 0]

FftSignals ==
  UNION { {Ramp(n), RampDown(n), Constant(n), Alternating(n)}
          \cup {Impulse(n, p, a) : p \in 1..n, a \in {1000, -2000, 500, -750}} : n \in FftLengths }

InitFft ==
  /\ filterStates = << >>
  /\ pinkNoise = PinkInit
  /\ smoothedT2 = 0
  /\ idealBuffer = [i \in 1..NumSamples |-> 0]
  /\ noisyBuffer = [i \in 1..NumSamples |-> 0]
  /\ result = << >>
  /\ call = << >>
  /\ snap = << >>
  /\ prev = << >>
  /\ calls = 0
  /\ app = << >>
  /\ \E signal \in FftSignals :
       probe = <<[signal |-> signal, done |-> FALSE,
                  rev |-> [real |-> << >>, imag |-> << >>], mids |-> << >>]>>

\* what the call that gave out leaves
AfterAnalyze(out) ==
  /\ probe' = <<[signal |-> out.signal, done |-> TRUE, rev |-> out.rev,
                 mids |-> out.mids]>>
  /\ UNCHANGED engine
  /\ UNCHANGED app

\* mids = computeMagnitudes(signal)
Analyze ==
  /\ ~probe[1].done
  /\ AfterAnalyze(computeMagnitudes(probe[1].signal))

NextFft == Analyze

SpecFft == InitFft /\ [][NextFft]_vars

\* log2 of a power of two
RECURSIVE Log2(_)
Log2(n) == IF n <= 1 THEN 0 ELSE 1 + Log2(n \div 2)

\* the number whose bits-bit binary representation is the reverse of i's
RECURSIVE BitReverse(_, _)
BitReverse(i, bits) ==
  IF bits = 0 THEN 0
  ELSE (i % 2) * IntPow(2, bits - 1) + BitReverse(i \div 2, bits - 1)

\* C26: for a power-of-two length n the bit-reversal loop places the windowed
\* sample of index i at the index whose log2(n)-bit representation is the
\* reverse of i's, for every i in 0..n-1, and that map of indices is its own
\* inverse.  The imaginary parts, all zero, stay zero.
C26_BitReversalPermutes ==
  (probe # << >> /\ Probe.done) =>
     LET n == Len(Probe.signal)
         w == Windowed(Probe.signal).real
     IN  /\ Len(Probe.rev.real) = n
         /\ \A i \in 0..(n - 1) :
              /\ Probe.rev.real[BitReverse(i, Log2(n)) + 1] = w[i + 1]
              /\ Probe.rev.imag[i + 1] = 0
              /\ BitReverse(BitReverse(i, Log2(n)), Log2(n)) = i

\* eight windowed samples, no two alike, have been permuted: sample 1 is at
\* index 4, sample 3 at index 6, and samples 0 and 7 where they were
C26_Witness ==
  /\ probe # << >> /\ Probe.done
  /\ Len(Probe.signal) = 8
  /\ LET w == Windowed(Probe.signal).real
     IN  /\ \A i, j \in 1..8 : w[i] = w[j] => i = j
         /\ Probe.rev.real[5] = w[2]
         /\ Probe.rev.real[7] = w[4]
         /\ Probe.rev.real[1] = w[1]
         /\ Probe.rev.real[8] = w[8]
         /\ Probe.rev.real # w

\* ------------------------------------------------------- the pooled buffers
\* C27: every simulateFrame call returns the same two module-level buffer
\* objects.  The buffer fields of the first call's result are those of the
\* last call's, and what is read through them is what the last call wrote.
C27_ResultsShareTheBuffers ==
  calls > 0 =>
    /\ First.returned = Last.returned
    /\ Samples(First.returned.idealBuffer) = Last.idealBuffer
    /\ Samples(First.returned.noisyBuffer) = Last.noisyBuffer

\* after a second call, both buffers of the first result hold samples other
\* than those they held when the first call returned
C27_Witness ==
  /\ calls = 2
  /\ Samples(First.returned.idealBuffer) # First.idealBuffer
  /\ Samples(First.returned.noisyBuffer) # First.noisyBuffer
  /\ Samples(First.returned.noisyBuffer) = Last.noisyBuffer

\* --------------------------------------------------- memories out of reach
\* the identities of the components of the room chain
RoomIds(params) ==
  {params.cable_room.components[k].id : k \in 1..Len(params.cable_room.components)}

\* C28: a call whose cursor is before cable_room leaves every stored filter
\* memory as it was, and a call whose cursor is cable_room leaves as it was
\* the memory of every filter that is not in the room chain, making no new
\* memory for any such filter.
C28_IdleStagesKeepTheirMemory ==
  [][calls' = calls + 1 =>
       /\ stageIndex(call'[1].activeStage) < 4 => filterStates' = filterStates
       /\ stageIndex(call'[1].activeStage) = 4 =>
            \A id \in (DOMAIN filterStates' \cup DOMAIN filterStates)
                        \ RoomIds(call'[1].params) :
               /\ id \in DOMAIN filterStates
               /\ id \in DOMAIN filterStates'
               /\ filterStates'[id] = filterStates[id]]_vars

\* a frame at cable_room has run the room chain's filter and left the cryo
\* chain's filter with the memory an earlier frame at the qubit gave it
C28_Witness ==
  /\ calls = 2
  /\ Last.activeStage = "cable_room"
  /\ "hp1" \in RoomIds(Last.params)
  /\ "hp1" \in DOMAIN filterStates /\ filterStates["hp1"].y1 # 0
  /\ "lp1" \in DOMAIN filterStates /\ filterStates["lp1"].y1 # 0
  /\ filterStates["lp1"] = Last.preFilter["lp1"]
  /\ stageIndex(prev[1].activeStage) >= 5

\* ------------------------------------------------- passes one after another
\* The loop body run again and again while the controller changes the
\* configuration and the cursor between frames: the module is loaded, and each
\* step is one pass of the sample loop of some frame, for a configuration, a
\* cursor and a sample index of that frame.

\* passes in one behaviour
MaxPasses == 3

\* the gaussian pulse with the cryo filter retuned and turned into a high-pass
GaussRetunedParams ==
  [GaussParams EXCEPT !.cable_cryo.components =
     <<[id |-> "att2", type |-> "attenuator", value |-> 20],
       [id |-> "lp1", type |-> "highpass", value |-> 60]>>]

\* the gaussian pulse with the cryo filter taken out
GaussBareParams ==
  [GaussParams EXCEPT !.cable_cryo.components =
     <<[id |-> "att2", type |-> "attenuator", value |-> 20]>>]

PassParams == {GaussZeroParams, GaussParams, GaussRetunedParams, GaussBareParams}

\* cursors before the lines, between them and after them
PassStages == {"mixer", "cable_room", "qubit"}

\* a sample on the pulse's slope and the one at its centre
PassIndices == {100, 256}

InitPasses ==
  /\ filterStates = << >>
  /\ pinkNoise = PinkInit
  /\ smoothedT2 = 0
  /\ idealBuffer = [i \in 1..NumSamples |-> 0]
  /\ noisyBuffer = [i \in 1..NumSamples |-> 0]
  /\ result = << >>
  /\ call = << >>
  /\ snap = << >>
  /\ prev = << >>
  /\ calls = 0
  /\ app = << >>
  /\ probe = <<[passes |-> 0]>>

\* what the pass st leaves; pre is the filter memory it started from (history)
AfterPass(params, activeStage, i, st) ==
  /\ probe' = <<[passes |-> probe[1].passes + 1, params |-> params,
                 activeStage |-> activeStage, i |-> i,
                 ideal |-> st.ideal, noisy |-> st.noisy, pre |-> filterStates]>>
  /\ filterStates' = st.fs
  /\ pinkNoise' = st.taps
  /\ UNCHANGED <<smoothedT2, idealBuffer, noisyBuffer, result, call, snap, prev,
                 calls, app>>

\* one pass of the loop for sample i of a frame
Pass ==
  /\ probe[1].passes < MaxPasses
  /\ \E params \in PassParams, activeStage \in PassStages, i \in PassIndices :
       AfterPass(params, activeStage, i,
                 SampleStep(params, 0, activeStage, CoeffsOf(params), i,
                            filterStates, pinkNoise, Calm))

NextPasses == Pass

SpecPasses == InitPasses /\ [][NextPasses]_vars

\* the components a pass at cursor index idx runs: the room chain from
\* cable_room on, the cryo chain from cable_cryo on
ActiveComponents(params, idx) ==
  (IF idx >= 4
   THEN {params.cable_room.components[k] : k \in 1..Len(params.cable_room.components)}
   ELSE {})
  \cup (IF idx >= 5
        THEN {params.cable_cryo.components[k] : k \in 1..Len(params.cable_cryo.components)}
        ELSE {})

\* a filter memory one of whose four values is not a number
HoldsNaN(h) == NaN \in {h.x1, h.x2, h.y1, h.y2}

\* C29: once the history of a filter component holds NaN, every later output
\* sample of that component is NaN whenever its stage is active and its
\* identity is in the chain, whatever the configuration then is.  A pass that
\* runs a filter whose memory holds NaN leaves NaN as that filter's last
\* output, so its memory holds NaN still.
C29_NaNStaysInTheFilter ==
  [][probe' # probe =>
       \A comp \in ActiveComponents(probe'[1].params,
                                    stageIndex(probe'[1].activeStage)) :
          ( /\ comp.type \in {"lowpass", "highpass", "notch"}
            /\ comp.id \in DOMAIN filterStates
            /\ HoldsNaN(filterStates[comp.id]) ) =>
             /\ filterStates'[comp.id].y1 = NaN
             /\ HoldsNaN(filterStates'[comp.id])]_vars

\* with the sigma back at 10 and the reference sample a number again, a pass
\* at the qubit has run the filter whose memory held NaN: its output and the
\* signal sample are NaN
C29_Witness ==
  /\ probe # << >>
  /\ probe[1].passes >= 2
  /\ probe[1].params = GaussParams
  /\ probe[1].activeStage = "qubit"
  /\ probe[1].ideal # NaN
  /\ "lp1" \in DOMAIN probe[1].pre
  /\ probe[1].pre["lp1"].y1 = NaN
  /\ probe[1].pre["lp1"].x1 # NaN
  /\ filterStates["lp1"].y1 = NaN
  /\ filterStates["lp1"].x1 # NaN
  /\ probe[1].noisy = NaN

\* ------------------------------------------------- the scalars and the filters
IsNoFilter(comp) == comp.type \notin {"lowpass", "highpass", "notch"}

\* the configuration with every low-pass, high-pass and notch component taken
\* out of both chains
WithoutFilters(params) ==
  [params EXCEPT !.cable_room.components = SelectSeq(@, IsNoFilter),
                 !.cable_cryo.components = SelectSeq(@, IsNoFilter)]

\* C30: estimatedT2, signalPowerdBm, effectiveNoiseTemp and maxAmplitude do
\* not depend on the filters of the chains.  From the smoothing state a call
\* started with, the four values it returned are those of the configuration
\* with every filter taken out, so that configurations which differ in their
\* filters alone return the same four values.
C30_ScalarsIgnoreFilters ==
  calls > 0 =>
    LET bare == WithoutFilters(Last.params)
        stage == Last.activeStage
        clamped == clampedT2(bare, stage)
    IN  /\ result[1].estimatedT2 = Smooth(SeedT2(Last.preSmoothed, clamped), clamped)
        /\ result[1].signalPowerdBm = voltsToBm(signalV(bare, stage))
        /\ result[1].effectiveNoiseTemp = effectiveNoiseTemp(bare, stage)
        /\ result[1].maxAmplitude = maxAmplitude(bare, stage)

\* a second frame, at the qubit, of a configuration with a filter in each
\* chain, started from a smoothing state other than its own clamped T2
C30_Witness ==
  /\ calls = 2
  /\ Last.activeStage = "qubit"
  /\ \E k \in 1..Len(Last.params.cable_room.components) :
        ~IsNoFilter(Last.params.cable_room.components[k])
  /\ \E k \in 1..Len(Last.params.cable_cryo.components) :
        ~IsNoFilter(Last.params.cable_cryo.components[k])
  /\ WithoutFilters(Last.params) # Last.params
  /\ Last.preSmoothed # 0
  /\ Last.preSmoothed # Last.clampedT2
  /\ result[1].estimatedT2 # Last.clampedT2
  /\ result[1].effectiveNoiseTemp > 0

====
